---- MODULE Spec2Model ----
(***************************************************************************)
(* Bot de Olas: the dialogue engine of core_bot_olas.py over the catalog   *)
(* of spots_config.py, with the forecast provider of pronostico_api.py as  *)
(* its environment.                                                        *)
(*                                                                         *)
(* A text is a sequence of one-character strings, so that strip, lower,    *)
(* isdigit, int and the substring test are computed, not assumed.          *)
(***************************************************************************)
EXTENDS Integers, Sequences, FiniteSets, TLC

VARIABLES estado, previo, entrada, hoy, respuesta, error, arg, llamadas,
          respondido,
          argumentos, valor,
          estados_usuarios, manejador, solos,
          archivo, escritores, historia

\* The dialogue: the caller's state and the last turn.
dialogo == <<estado, previo, entrada, hoy, respuesta, error, arg, llamadas,
             respondido>>

\* One call of a function on its own: its arguments and the value returned.
puras == <<argumentos, valor>>

\* The Telegram adapter: the state slot of each user, each user's handler
\* in progress, and the slots as each user's inputs alone leave them.
usuarios == <<estados_usuarios, manejador, solos>>

\* The adjustment store: the file, the updates in progress, and what has
\* happened to the file so far.
ajustes == <<archivo, escritores, historia>>

vars == <<dialogo, puras, usuarios, ajustes>>

\* Python's None, where a key or a text is expected.
None == "None"

\* No function is being called on its own.
SinLlamadaPura == argumentos = <<>> /\ valor = <<>>

\* The adapter is not running.
SinUsuarios == estados_usuarios = <<>> /\ manejador = <<>> /\ solos = <<>>

\* No adjustment is being written.
SinAjustes == archivo = <<>> /\ escritores = <<>> /\ historia = <<>>

\* The outcome of int() on a text that str.isdigit() accepts and int() rejects.
ValueError == "ValueError"

Minimo(S) == CHOOSE x \in S : \A y \in S : x <= y

Maximo(S) == CHOOSE x \in S : \A y \in S : x >= y

(***************************************************************************)
(* The catalog (spots_config.py), in insertion order.  key is the dict    *)
(* key, clave the same key as a text, nombre the display name.             *)
(***************************************************************************)
SPOTS ==
  <<
  [key |-> "mar_del_plata", clave |-> <<"m", "a", "r", "_", "d", "e", "l", "_", "p", "l", "a", "t", "a">>,
   nombre |-> <<"M", "a", "r", " ", "d", "e", "l", " ", "P", "l", "a", "t", "a">>,
   playas |-> <<
       [key |-> "varese", clave |-> <<"v", "a", "r", "e", "s", "e">>,
        nombre |-> <<"V", "a", "r", "e", "s", "e">>],
       [key |-> "la_perla", clave |-> <<"l", "a", "_", "p", "e", "r", "l", "a">>,
        nombre |-> <<"L", "a", " ", "P", "e", "r", "l", "a">>],
       [key |-> "biologia", clave |-> <<"b", "i", "o", "l", "o", "g", "i", "a">>,
        nombre |-> <<"B", "i", "o", "l", "o", "g", "í", "a">>],
       [key |-> "mariano", clave |-> <<"m", "a", "r", "i", "a", "n", "o">>,
        nombre |-> <<"M", "a", "r", "i", "a", "n", "o">>],
       [key |-> "sun_waikiki", clave |-> <<"s", "u", "n", "_", "w", "a", "i", "k", "i", "k", "i">>,
        nombre |-> <<"S", "u", "n", " ", "R", "i", "d", "e", "r", " ", "/", " ", "W", "a", "i", "k", "i", "k", "i">>],
       [key |-> "general", clave |-> <<"g", "e", "n", "e", "r", "a", "l">>,
        nombre |-> <<"G", "e", "n", "e", "r", "a", "l", " ", "(", "o", "t", "r", "a", "s", " ", "p", "l", "a", "y", "a", "s", ")">>] >>],
  [key |-> "chapadmalal", clave |-> <<"c", "h", "a", "p", "a", "d", "m", "a", "l", "a", "l">>,
   nombre |-> <<"C", "h", "a", "p", "a", "d", "m", "a", "l", "a", "l">>,
   playas |-> <<
       [key |-> "general", clave |-> <<"g", "e", "n", "e", "r", "a", "l">>,
        nombre |-> <<"G", "e", "n", "e", "r", "a", "l">>] >>],
  [key |-> "miramar", clave |-> <<"m", "i", "r", "a", "m", "a", "r">>,
   nombre |-> <<"M", "i", "r", "a", "m", "a", "r">>,
   playas |-> <<
       [key |-> "general", clave |-> <<"g", "e", "n", "e", "r", "a", "l">>,
        nombre |-> <<"G", "e", "n", "e", "r", "a", "l">>] >>],
  [key |-> "quequen", clave |-> <<"q", "u", "e", "q", "u", "e", "n">>,
   nombre |-> <<"Q", "u", "e", "q", "u", "é", "n">>,
   playas |-> <<
       [key |-> "monte_pasubio", clave |-> <<"m", "o", "n", "t", "e", "_", "p", "a", "s", "u", "b", "i", "o">>,
        nombre |-> <<"M", "o", "n", "t", "e", " ", "P", "a", "s", "u", "b", "i", "o">>] >>],
  [key |-> "necochea", clave |-> <<"n", "e", "c", "o", "c", "h", "e", "a">>,
   nombre |-> <<"N", "e", "c", "o", "c", "h", "e", "a">>,
   playas |-> <<
       [key |-> "escollera", clave |-> <<"e", "s", "c", "o", "l", "l", "e", "r", "a">>,
        nombre |-> <<"E", "s", "c", "o", "l", "l", "e", "r", "a">>] >>]
  >>

(***************************************************************************)
(* Python's str methods used by the engine.                                *)
(***************************************************************************)
\* str.strip() removes these from both ends.
Blancos == {" ", "\t", "\n"}

DigitosDecimales == <<"0", "1", "2", "3", "4", "5", "6", "7", "8", "9">>

EsDecimal(c) == \E i \in 1..Len(DigitosDecimales) : DigitosDecimales[i] = c

ValorDigito(c) == (CHOOSE i \in 1..Len(DigitosDecimales) : DigitosDecimales[i] = c) - 1

\* Characters str.isdigit() accepts and int() rejects (Unicode category No).
DigitosNoDecimales == {"²"}

Minuscula(c) ==
  CASE c = "A" -> "a"
    [] c = "B" -> "b"
    [] c = "C" -> "c"
    [] c = "D" -> "d"
    [] c = "E" -> "e"
    [] c = "F" -> "f"
    [] c = "G" -> "g"
    [] c = "H" -> "h"
    [] c = "I" -> "i"
    [] c = "J" -> "j"
    [] c = "K" -> "k"
    [] c = "L" -> "l"
    [] c = "M" -> "m"
    [] c = "N" -> "n"
    [] c = "O" -> "o"
    [] c = "P" -> "p"
    [] c = "Q" -> "q"
    [] c = "R" -> "r"
    [] c = "S" -> "s"
    [] c = "T" -> "t"
    [] c = "U" -> "u"
    [] c = "V" -> "v"
    [] c = "W" -> "w"
    [] c = "X" -> "x"
    [] c = "Y" -> "y"
    [] c = "Z" -> "z"
    [] c = "Á" -> "á"
    [] c = "É" -> "é"
    [] c = "Í" -> "í"
    [] c = "Ó" -> "ó"
    [] c = "Ú" -> "ú"
    [] c = "Ñ" -> "ñ"
    [] OTHER -> c

Lower(s) == [i \in 1..Len(s) |-> Minuscula(s[i])]

Strip(s) ==
  LET llenos == {i \in 1..Len(s) : s[i] \notin Blancos}
  IN  IF llenos = {} THEN <<>> ELSE SubSeq(s, Minimo(llenos), Maximo(llenos))

NormalizarTexto(texto) == Lower(Strip(texto))

\* str.isdigit(): non-empty and every character a digit.
IsDigit(s) ==
  /\ Len(s) > 0
  /\ \A i \in 1..Len(s) : EsDecimal(s[i]) \/ s[i] \in DigitosNoDecimales

\* int(s) succeeds on a text of decimal digits.
IntAcepta(s) == Len(s) > 0 /\ \A i \in 1..Len(s) : EsDecimal(s[i])

RECURSIVE Entero(_)
Entero(s) ==
  IF Len(s) = 0 THEN 0
  ELSE 10 * Entero(SubSeq(s, 1, Len(s) - 1)) + ValorDigito(s[Len(s)])

\* a in b, for two texts.
Contiene(b, a) ==
  \E i \in 0..(Len(b) - Len(a)) : SubSeq(b, i + 1, i + Len(a)) = a


(***************************************************************************)
(* The keyword sets of responder_mensaje, as texts.                        *)
(***************************************************************************)
ComandosVolver ==
  { <<"v">>,
    <<"v", "o", "l", "v", "e", "r">>,
    <<"a", "t", "r", "á", "s">>,
    <<"a", "t", "r", "a", "s">> }

ComandosStart ==
  { <<"/", "s", "t", "a", "r", "t">>,
    <<"s", "t", "a", "r", "t">> }

Saludos ==
  { <<"h", "o", "l", "a">>,
    <<"b", "u", "e", "n", " ", "d", "i", "a">>,
    <<"b", "u", "e", "n", " ", "d", "í", "a">> }

ComandosCambiarSpot ==
  { <<"c", "a", "m", "b", "i", "a", "r", " ", "s", "p", "o", "t">>,
    <<"/", "s", "p", "o", "t">> }

ConsultaHoy ==
  { <<"1">>,
    <<"h", "o", "y">> }

ConsultaManiana ==
  { <<"2">>,
    <<"m", "a", "n", "i", "a", "n", "a">> }

ConsultaOtroDia ==
  { <<"3">>,
    <<"o", "t", "r", "o", " ", "d", "i", "a">>,
    <<"o", "t", "r", "o", " ", "d", "í", "a">> }

ConsultaMejorHorario ==
  { <<"4">>,
    <<"m", "e", "j", "o", "r", " ", "h", "o", "r", "a", "r", "i", "o", " ", "h", "o", "y">> }

ConsultaMejorDia ==
  { <<"5">>,
    <<"m", "e", "j", "o", "r", " ", "d", "i", "a">>,
    <<"m", "e", "j", "o", "r", " ", "d", "í", "a">>,
    <<"m", "e", "j", "o", "r", " ", "d", "i", "a", " ", "s", "e", "m", "a", "n", "a">>,
    <<"m", "e", "j", "o", "r", " ", "d", "í", "a", " ", "s", "e", "m", "a", "n", "a">> }

\* dias=7 at the call of _mejor_dia_semana.
Dias == 7

\* Bound on how often the provider's outcome changes within one turn.
MaxCambios == 1

(***************************************************************************)
(* Dates: datetime.date as a record, date + timedelta, and strptime for   *)
(* the four formats the engine tries.                                      *)
(***************************************************************************)
Fecha(y, m, d) == [y |-> y, m |-> m, d |-> d]

\* "no date": the None that _parsear_fecha_desde_usuario returns.
NoFecha == [y |-> 0, m |-> 0, d |-> 0]

EsBisiesto(y) == (y % 4 = 0 /\ y % 100 # 0) \/ y % 400 = 0

DiasEnMes(y, m) ==
  IF m = 2 THEN (IF EsBisiesto(y) THEN 29 ELSE 28)
  ELSE IF m \in {4, 6, 9, 11} THEN 30 ELSE 31

DiaSiguiente(f) ==
  IF f.d < DiasEnMes(f.y, f.m) THEN Fecha(f.y, f.m, f.d + 1)
  ELSE IF f.m < 12 THEN Fecha(f.y, f.m + 1, 1)
  ELSE Fecha(f.y + 1, 1, 1)

RECURSIVE SumarDias(_, _)
SumarDias(f, n) == IF n = 0 THEN f ELSE SumarDias(DiaSiguiente(f), n - 1)

RECURSIVE Partir(_, _)
Partir(s, sep) ==
  LET pos == {i \in 1..Len(s) : s[i] = sep}
  IN  IF pos = {} THEN <<s>>
      ELSE <<SubSeq(s, 1, Minimo(pos) - 1)>>
           \o Partir(SubSeq(s, Minimo(pos) + 1, Len(s)), sep)

\* strptime's %d: 3[0-1] | [1-2]\d | 0[1-9] | [1-9] | " "[1-9]
CampoDia(p) ==
  \/ Len(p) = 1 /\ EsDecimal(p[1]) /\ p[1] # "0"
  \/ Len(p) = 2 /\ EsDecimal(p[1]) /\ EsDecimal(p[2]) /\ Entero(p) \in 1..31
  \/ Len(p) = 2 /\ p[1] = " " /\ EsDecimal(p[2]) /\ p[2] # "0"

ValorDia(p) == IF p[1] = " " THEN ValorDigito(p[2]) ELSE Entero(p)

\* strptime's %m: 1[0-2] | 0[1-9] | [1-9]
CampoMes(p) ==
  \/ Len(p) = 1 /\ EsDecimal(p[1]) /\ p[1] # "0"
  \/ Len(p) = 2 /\ EsDecimal(p[1]) /\ EsDecimal(p[2]) /\ Entero(p) \in 1..12

\* strptime's %Y: \d\d\d\d
CampoAnio(p) == Len(p) = 4 /\ \A i \in 1..4 : EsDecimal(p[i])

\* The formats of formatos, in order: separator, and whether %Y is present.
Formatos ==
  << [sep |-> "/", anio |-> TRUE], [sep |-> "-", anio |-> TRUE],
     [sep |-> "/", anio |-> FALSE], [sep |-> "-", anio |-> FALSE] >>

\* datetime.strptime(s, fmt).date(), NoFecha where it raises ValueError.
\* Without %Y the year is strptime's default, 1900.
Strptime(s, fmt) ==
  LET p == Partir(s, fmt.sep)
  IN  IF Len(p) # (IF fmt.anio THEN 3 ELSE 2) THEN NoFecha
      ELSE IF ~CampoDia(p[1]) \/ ~CampoMes(p[2]) THEN NoFecha
      ELSE IF fmt.anio /\ ~CampoAnio(p[3]) THEN NoFecha
      ELSE LET y == IF fmt.anio THEN Entero(p[3]) ELSE 1900
               m == Entero(p[2])
               d == ValorDia(p[1])
           IN  IF y < 1 \/ d > DiasEnMes(y, m) THEN NoFecha ELSE Fecha(y, m, d)

\* One iteration of the loop: the date of this format, NoFecha on ValueError
\* (from strptime, or from replace when the day is not in the new year).
ProbarFormato(s, fmt, anio_hoy) ==
  LET dt == Strptime(s, fmt)
  IN  IF dt = NoFecha THEN NoFecha
      ELSE IF fmt.anio THEN dt
      ELSE IF dt.d > DiasEnMes(anio_hoy, dt.m) THEN NoFecha
      ELSE Fecha(anio_hoy, dt.m, dt.d)

ParsearFechaDesdeUsuario(texto, fecha_hoy) ==
  LET s == Strip(texto)
      ok == {i \in 1..Len(Formatos) : ProbarFormato(s, Formatos[i], fecha_hoy.y) # NoFecha}
  IN  IF ok = {} THEN NoFecha
      ELSE ProbarFormato(s, Formatos[Minimo(ok)], fecha_hoy.y)

(***************************************************************************)
(* The conversation state: a dict, that is a function from the keys       *)
(* present to their values.                                                *)
(***************************************************************************)
Get(d, k, defecto) == IF k \in DOMAIN d THEN d[k] ELSE defecto

Put(d, k, v) == [x \in (DOMAIN d) \cup {k} |-> IF x = k THEN v ELSE d[x]]

CrearEstadoInicial ==
  [fase |-> "eligiendo_spot", spot_key |-> None, playa_key |-> None]

\* The argument None of responder_mensaje (estado: Optional[Estado]).
EstadoNone == [none |-> TRUE]

Fases == {"eligiendo_spot", "eligiendo_playa", "menu_consulta", "esperando_dia"}

(***************************************************************************)
(* Catalog lookups.                                                        *)
(***************************************************************************)
EnSpots(k) == \E i \in 1..Len(SPOTS) : SPOTS[i].key = k

Spot(k) == SPOTS[CHOOSE i \in 1..Len(SPOTS) : SPOTS[i].key = k]

Playas(k) == Spot(k).playas

EnPlayas(k, p) ==
  EnSpots(k) /\ \E i \in 1..Len(Playas(k)) : Playas(k)[i].key = p

(***************************************************************************)
(* Response texts, by what they say: the kind of text, the catalog        *)
(* entries and date it names, whether it shows the daylight window, and   *)
(* the days a multi-day report lists.                                      *)
(***************************************************************************)
Texto(tipo, spot, playa, fecha, luz, dias) ==
  [tipo |-> tipo, spot |-> spot, playa |-> playa, fecha |-> fecha,
   luz |-> luz, dias |-> dias]

ListarSpots == Texto("listar_spots", None, None, NoFecha, FALSE, <<>>)

ListarPlayas(spot_key) ==
  Texto("listar_playas", spot_key, None, NoFecha, FALSE, <<>>)

TextoMenuConsultas(spot_key, playa_key) ==
  Texto("menu_consultas", spot_key, playa_key, NoFecha, FALSE, <<>>)

TextoPedirFecha == Texto("pedir_fecha", None, None, NoFecha, FALSE, <<>>)

TextoFechaNoEntendida ==
  Texto("fecha_no_entendida", None, None, NoFecha, FALSE, <<>>)

\* No text: the turn ended with an exception.
SinRespuesta == Texto("excepcion", None, None, NoFecha, FALSE, <<>>)

(***************************************************************************)
(* The forecast provider, seen from the engine: what one call of          *)
(* _obtener_datos_olas_reales gives (observations, an empty list, or an   *)
(* exception), and whether _obtener_sunrise_sunset gives a window.        *)
(***************************************************************************)
Resultados == {"datos", "vacio", "error"}

Llamada(fecha, resultado) == [fecha |-> fecha, resultado |-> resultado]

\* A report: its text and the provider calls it made.
Informe(texto, llams) == [texto |-> texto, llamadas |-> llams]

\* Mutant of ObtenerPronosticoFormateado: a failed fetch is reported as a
\* day without data.
ObtenerPronosticoFalloComoVacio(spot_key, playa_key, fecha, resultado, luz) ==
  Informe(
    CASE resultado \in {"error", "vacio"} ->
           Texto("no_hay_datos", spot_key, playa_key, NoFecha, FALSE, <<>>)
      [] OTHER ->
           Texto("pronostico", spot_key, playa_key, fecha, luz, <<>>),
    <<Llamada(fecha, resultado)>>)

ObtenerPronosticoFormateado(spot_key, playa_key, fecha, resultado, luz) ==
  Informe(
    CASE resultado = "error" ->
           Texto("no_pude_obtener_pronostico", spot_key, playa_key, NoFecha, FALSE, <<>>)
      [] resultado = "vacio" ->
           Texto("no_hay_datos", spot_key, playa_key, NoFecha, FALSE, <<>>)
      [] OTHER ->
           Texto("pronostico", spot_key, playa_key, fecha, luz, <<>>),
    <<Llamada(fecha, resultado)>>)

MejorHorarioEnDia(spot_key, playa_key, fecha, resultado, luz) ==
  Informe(
    CASE resultado = "error" ->
           Texto("no_pude_obtener_datos", spot_key, playa_key, fecha, FALSE, <<>>)
      [] resultado = "vacio" ->
           Texto("no_hay_datos_olas", spot_key, playa_key, fecha, FALSE, <<>>)
      [] OTHER ->
           Texto("mejor_horario", spot_key, playa_key, fecha, luz, <<>>),
    <<Llamada(fecha, resultado)>>)

\* The loop over range(dias): one call per day, the days that fail or are
\* empty skipped; resultados[i] is what the i-th call gives.
MejorDiaSemana(spot_key, playa_key, dias, fecha_hoy, resultados) ==
  LET llams == [i \in 1..dias |->
                  Llamada(SumarDias(fecha_hoy, i - 1), resultados[i])]
      conDatos == SelectSeq(llams, LAMBDA l : l.resultado = "datos")
      registros == [i \in 1..Len(conDatos) |-> conDatos[i].fecha]
  IN  Informe(
        IF registros = <<>>
        THEN Texto("no_pude_estimar", spot_key, playa_key, NoFecha, FALSE, <<>>)
        ELSE Texto("mejor_dia", spot_key, playa_key, NoFecha, FALSE, registros),
        llams)

(***************************************************************************)
(* responder_mensaje.  A turn gives the response, the state returned,     *)
(* the caller's dict as the call left it (the engine assigns to its       *)
(* argument in place), whether an exception left the turn, and the        *)
(* provider calls made.                                                    *)
(***************************************************************************)
Resultado(resp, nuevo, mutado, llams) ==
  [resp |-> resp, estado |-> nuevo, arg |-> mutado, error |-> FALSE,
   llamadas |-> llams]

\* An exception leaves responder_mensaje: nothing is returned.
Lanza(mutado) ==
  [resp |-> SinRespuesta, estado |-> mutado, arg |-> mutado, error |-> TRUE,
   llamadas |-> <<>>]

\* Mutant of Reiniciar: the site list is shown but the state is not replaced.
ReiniciarSinLimpiar(mutado) == Resultado(ListarSpots, mutado, mutado, <<>>)

\* estado = crear_estado_inicial(); return _listar_spots(), estado
Reiniciar(mutado) == Resultado(ListarSpots, CrearEstadoInicial, mutado, <<>>)

\* Mutant of VolverDesdeMenu: playa_key is not cleared on the way back to the
\* beach list.
VolverDesdeMenuConPlaya(est) ==
  LET spot_key == Get(est, "spot_key", None)
  IN  IF spot_key = None \/ ~EnSpots(spot_key)
      THEN Resultado(ListarSpots, CrearEstadoInicial, est, <<>>)
      ELSE IF Len(Playas(spot_key)) > 1
      THEN LET e == Put(est, "fase", "eligiendo_playa")
           IN  Resultado(ListarPlayas(spot_key), e, e, <<>>)
      ELSE Resultado(ListarSpots, CrearEstadoInicial, est, <<>>)

VolverDesdeMenu(est) ==
  LET spot_key == Get(est, "spot_key", None)
  IN  IF spot_key = None \/ ~EnSpots(spot_key) THEN Reiniciar(est)
      ELSE IF Len(Playas(spot_key)) > 1
      THEN LET e == Put(Put(est, "fase", "eligiendo_playa"), "playa_key", None)
           IN  Resultado(ListarPlayas(spot_key), e, e, <<>>)
      ELSE Reiniciar(est)

VolverDesdeEsperandoDia(est) ==
  LET e == Put(est, "fase", "menu_consulta")
      spot_key == Get(e, "spot_key", None)
      playa_key == Get(e, "playa_key", None)
  IN  IF spot_key # None /\ playa_key # None
      THEN IF EnPlayas(spot_key, playa_key)
           THEN Resultado(TextoMenuConsultas(spot_key, playa_key), e, e, <<>>)
           ELSE Lanza(e)
      ELSE Reiniciar(e)

\* Mutant of Volver: back goes to the site list from every phase.
VolverAlInicio(fase, est) ==
  Resultado(ListarSpots, CrearEstadoInicial, est, <<>>)

\* The global "back" command, for the four phases that handle it.
Volver(fase, est) ==
  CASE fase = "menu_consulta" -> VolverDesdeMenu(est)
    [] fase = "esperando_dia" -> VolverDesdeEsperandoDia(est)
    [] fase = "eligiendo_playa" -> Reiniciar(est)
    [] fase = "eligiendo_spot" -> Resultado(ListarSpots, est, est, <<>>)

\* Mutant of ElegirClave: the number is used as a 0-based index.
ElegirClaveBaseCero(t_norm, entradas) ==
  IF IsDigit(t_norm)
  THEN IF ~IntAcepta(t_norm) THEN ValueError
       ELSE LET idx == Entero(t_norm)
            IN  IF 0 <= idx /\ idx < Len(entradas) THEN entradas[idx + 1].key
                ELSE None
  ELSE LET hallados == {i \in 1..Len(entradas) :
                          \/ t_norm = Lower(entradas[i].clave)
                          \/ Contiene(Lower(entradas[i].nombre), t_norm)}
       IN  IF hallados = {} THEN None ELSE entradas[Minimo(hallados)].key

\* Mutant of ElegirClave: the loop has no break, the last match wins.
ElegirClaveUltimoHallado(t_norm, entradas) ==
  IF IsDigit(t_norm)
  THEN IF ~IntAcepta(t_norm) THEN ValueError
       ELSE LET idx == Entero(t_norm) - 1
            IN  IF 0 <= idx /\ idx < Len(entradas) THEN entradas[idx + 1].key
                ELSE None
  ELSE LET hallados == {i \in 1..Len(entradas) :
                          \/ t_norm = Lower(entradas[i].clave)
                          \/ Contiene(Lower(entradas[i].nombre), t_norm)}
       IN  IF hallados = {} THEN None ELSE entradas[Maximo(hallados)].key

\* The selection among the entries of a listing (sites, or the beaches of a
\* site): by 1-based number, or by text against key and display name.
\* None when nothing is selected, ValueError when int() raises.
ElegirClave(t_norm, entradas) ==
  IF IsDigit(t_norm)
  THEN IF ~IntAcepta(t_norm) THEN ValueError
       ELSE LET idx == Entero(t_norm) - 1
            IN  IF 0 <= idx /\ idx < Len(entradas) THEN entradas[idx + 1].key
                ELSE None
  ELSE LET hallados == {i \in 1..Len(entradas) :
                          \/ t_norm = Lower(entradas[i].clave)
                          \/ Contiene(Lower(entradas[i].nombre), t_norm)}
       IN  IF hallados = {} THEN None ELSE entradas[Minimo(hallados)].key

FaseEligiendoSpot(t_norm, est) ==
  LET spot_key == ElegirClave(t_norm, SPOTS)
  IN  IF spot_key = ValueError THEN Lanza(est)
      ELSE IF spot_key = None THEN Resultado(ListarSpots, est, est, <<>>)
      ELSE LET e1 == Put(est, "spot_key", spot_key)
               playas == Playas(spot_key)
           IN  IF Len(playas) = 1
               THEN LET e2 == Put(Put(e1, "playa_key", playas[1].key),
                                  "fase", "menu_consulta")
                    IN  Resultado(TextoMenuConsultas(spot_key, playas[1].key),
                                  e2, e2, <<>>)
               ELSE LET e2 == Put(e1, "fase", "eligiendo_playa")
                    IN  Resultado(ListarPlayas(spot_key), e2, e2, <<>>)

FaseEligiendoPlaya(t_norm, est) ==
  LET spot_key == Get(est, "spot_key", None)
  IN  IF spot_key = None \/ ~EnSpots(spot_key) THEN Reiniciar(est)
      ELSE LET playa_key == ElegirClave(t_norm, Playas(spot_key))
           IN  IF playa_key = ValueError THEN Lanza(est)
               ELSE IF playa_key = None
               THEN Resultado(ListarPlayas(spot_key), est, est, <<>>)
               ELSE LET e == Put(Put(est, "playa_key", playa_key),
                                 "fase", "menu_consulta")
                    IN  Resultado(TextoMenuConsultas(spot_key, playa_key),
                                  e, e, <<>>)

\* Mutant of ConInforme: after a report the conversation starts over.
ConInformeYReinicio(informe, est) ==
  Resultado(informe.texto, CrearEstadoInicial, est, informe.llamadas)

\* A report's text returned with the state as it is.
ConInforme(informe, est) ==
  Resultado(informe.texto, est, est, informe.llamadas)

FaseMenuConsulta(t_norm, est, env) ==
  LET spot_key == Get(est, "spot_key", None)
      playa_key == Get(est, "playa_key", None)
  IN  IF spot_key = None \/ playa_key = None THEN Reiniciar(est)
      ELSE IF t_norm \in ConsultaOtroDia
      THEN LET e == Put(est, "fase", "esperando_dia")
           IN  Resultado(TextoPedirFecha, e, e, <<>>)
      ELSE IF ~EnPlayas(spot_key, playa_key) THEN Lanza(est)
      ELSE IF t_norm \in ConsultaHoy
      THEN ConInforme(ObtenerPronosticoFormateado(spot_key, playa_key, env.hoy,
                        env.resultados[1], env.luz), est)
      ELSE IF t_norm \in ConsultaManiana
      THEN ConInforme(ObtenerPronosticoFormateado(spot_key, playa_key,
                        SumarDias(env.hoy, 1), env.resultados[1], env.luz), est)
      ELSE IF t_norm \in ConsultaMejorHorario
      THEN ConInforme(MejorHorarioEnDia(spot_key, playa_key, env.hoy,
                        env.resultados[1], env.luz), est)
      ELSE IF t_norm \in ConsultaMejorDia
      THEN ConInforme(MejorDiaSemana(spot_key, playa_key, Dias, env.hoy,
                        env.resultados), est)
      ELSE Resultado(TextoMenuConsultas(spot_key, playa_key), est, est, <<>>)

\* Mutant of FaseEsperandoDia: the report is rendered but the phase is not
\* set back to menu_consulta.
FaseEsperandoDiaSinVolverAlMenu(texto, est, env) ==
  LET spot_key == Get(est, "spot_key", None)
      playa_key == Get(est, "playa_key", None)
      fecha == ParsearFechaDesdeUsuario(texto, env.hoy)
  IN  IF spot_key = None \/ playa_key = None THEN Reiniciar(est)
      ELSE IF fecha = NoFecha
      THEN Resultado(TextoFechaNoEntendida, est, est, <<>>)
      ELSE IF ~EnPlayas(spot_key, playa_key) THEN Lanza(est)
      ELSE ConInforme(ObtenerPronosticoFormateado(spot_key, playa_key,
                        fecha, env.resultados[1], env.luz), est)

\* The date is parsed from the text as typed, not from the normalised one.
FaseEsperandoDia(texto, est, env) ==
  LET spot_key == Get(est, "spot_key", None)
      playa_key == Get(est, "playa_key", None)
      fecha == ParsearFechaDesdeUsuario(texto, env.hoy)
  IN  IF spot_key = None \/ playa_key = None THEN Reiniciar(est)
      ELSE IF fecha = NoFecha
      THEN Resultado(TextoFechaNoEntendida, est, est, <<>>)
      ELSE LET e == Put(est, "fase", "menu_consulta")
           IN  IF ~EnPlayas(spot_key, playa_key) THEN Lanza(e)
               ELSE ConInforme(ObtenerPronosticoFormateado(spot_key, playa_key,
                                 fecha, env.resultados[1], env.luz), e)

\* The body of responder_mensaje once estado is a dict.
Despachar(texto, est, env) ==
  LET t_norm == NormalizarTexto(texto)
      fase == Get(est, "fase", "eligiendo_spot")
  IN  IF t_norm \in ComandosVolver /\ fase \in Fases THEN Volver(fase, est)
      ELSE IF t_norm \in ComandosStart THEN Reiniciar(est)
      ELSE IF t_norm \in Saludos /\ fase = "eligiendo_spot"
      THEN Resultado(ListarSpots, est, est, <<>>)
      ELSE IF t_norm \in ComandosCambiarSpot THEN Reiniciar(est)
      ELSE IF fase = "eligiendo_spot" THEN FaseEligiendoSpot(t_norm, est)
      ELSE IF fase = "eligiendo_playa" THEN FaseEligiendoPlaya(t_norm, est)
      ELSE IF fase = "menu_consulta" THEN FaseMenuConsulta(t_norm, est, env)
      ELSE IF fase = "esperando_dia" THEN FaseEsperandoDia(texto, est, env)
      ELSE Reiniciar(est)

ResponderMensaje(texto, estado0, env) ==
  IF estado0 = EstadoNone
  THEN [Despachar(texto, CrearEstadoInicial, env) EXCEPT !.arg = EstadoNone]
  ELSE Despachar(texto, estado0, env)

(***************************************************************************)
(* Input texts.                                                            *)
(***************************************************************************)
TextosVolver ==
  { <<"v">>,
    <<" ", "V", "o", "l", "v", "e", "r", " ">>,
    <<"a", "t", "r", "a", "s">>,
    <<"a", "t", "r", "á", "s">> }

TextosReinicio ==
  { <<"/", "s", "t", "a", "r", "t">>,
    <<"s", "t", "a", "r", "t">>,
    <<"c", "a", "m", "b", "i", "a", "r", " ", "s", "p", "o", "t">>,
    <<"/", "s", "p", "o", "t">>,
    <<"r", "e", "s", "t", "a", "r", "t">> }

TextosSaludo ==
  { <<"h", "o", "l", "a">> }

TextosNumeros ==
  { <<"0">>,
    <<"1">>,
    <<"2">>,
    <<"3">>,
    <<"4">>,
    <<"5">>,
    <<"6">>,
    <<"7">>,
    <<"0", "1">>,
    <<"²">> }

TextosNombres ==
  { <<"m", "i", "r", "a", "m", "a", "r">>,
    <<"M", "I", "R", "A", "M", "A", "R">>,
    <<"m", "a", "r">>,
    <<"m", "a", "r", "_", "d", "e", "l", "_", "p", "l", "a", "t", "a">>,
    <<"m", "a", "r", "_", "d">>,
    <<"e", "q", "u", "e", "n">>,
    <<"Q", "u", "e", "q", "u", "é", "n">>,
    <<"a">>,
    <<>>,
    <<" ", "\t", " ">>,
    <<"x", "y", "z">>,
    <<"v", "a", "r", "e", "s", "e">>,
    <<"l", "a", " ", "p", "e", "r", "l", "a">>,
    <<"l", "a", "_", "p", "e", "r", "l", "a">>,
    <<"a", "_", "p", "e", "r", "l">>,
    <<"g", "e", "n", "e", "r", "a", "l">> }

TextosConsultas ==
  { <<"h", "o", "y">>,
    <<"o", "t", "r", "o", " ", "d", "i", "a">>,
    <<"m", "e", "j", "o", "r", " ", "d", "i", "a">> }

TextosFechas ==
  { <<"0", "9", "/", "1", "2">>,
    <<"0", "9", "/", "1", "2", "/", "2", "0", "2", "4">>,
    <<"2", "9", "/", "0", "2">>,
    <<"2", "9", "-", "0", "2", "-", "2", "0", "2", "4">>,
    <<"3", "1", "/", "0", "4">>,
    <<"9", "-", "1", "2">> }

(***************************************************************************)
(* The inputs of a turn.                                                   *)
(***************************************************************************)
Textos ==
  TextosVolver \cup TextosReinicio \cup TextosSaludo \cup TextosNumeros
    \cup TextosNombres \cup TextosConsultas \cup TextosFechas

\* date.today(): the day of the conversation.
Hoys == {Fecha(2024, 2, 28)}

\* What the provider gives to the n calls of a turn, in call order: the
\* outcome changes at most MaxCambios times from one call to the next.
Patrones(n) ==
  {s \in [1..n -> Resultados] :
     Cardinality({i \in 1..(n - 1) : s[i] # s[i + 1]}) <= MaxCambios}

PatronesSemana == Patrones(Dias)

\* For a turn of one call only the first outcome is consulted.
PatronesUno == {[i \in 1..Dias |-> x] : x \in Resultados}

Entorno(fecha_hoy, resultados, luz) ==
  [hoy |-> fecha_hoy, resultados |-> resultados, luz |-> luz]

EntornoBase(fecha_hoy) == Entorno(fecha_hoy, [i \in 1..Dias |-> "datos"], TRUE)

\* The environments that differ for a turn of n provider calls (n >= 1).
Entornos(n, fecha_hoy) ==
  IF n = 1
  THEN {Entorno(fecha_hoy, s, luz) : s \in PatronesUno, luz \in BOOLEAN}
  ELSE {Entorno(fecha_hoy, s, TRUE) : s \in PatronesSemana}

(***************************************************************************)
(* The engine driven turn by turn by a caller that keeps the state        *)
(* returned.  previo, entrada and hoy are the arguments of the last turn, *)
(* respuesta, error, arg and llamadas its outcome; respondido tells that   *)
(* there was a turn.                                                       *)
(***************************************************************************)
InitDialogo ==
  /\ estado = CrearEstadoInicial
  /\ previo = CrearEstadoInicial
  /\ entrada = <<>>
  /\ hoy \in Hoys
  /\ respuesta = ListarSpots
  /\ error = FALSE
  /\ arg = CrearEstadoInicial
  /\ llamadas = <<>>
  /\ respondido = FALSE

Init == InitDialogo /\ SinLlamadaPura /\ SinUsuarios /\ SinAjustes

\* One turn.  The number of provider calls of a turn does not depend on what
\* the calls give, so the environment is drawn once it is known.
Turno ==
  \E texto \in Textos :
    \E r0 \in {ResponderMensaje(texto, estado, EntornoBase(hoy))} :
      \E r \in (IF r0.llamadas = <<>> THEN {r0}
                ELSE {ResponderMensaje(texto, estado, env) :
                        env \in Entornos(Len(r0.llamadas), hoy)}) :
        /\ previo' = estado
        /\ entrada' = texto
        /\ hoy' = hoy
        /\ respuesta' = r.resp
        /\ error' = r.error
        /\ arg' = r.arg
        /\ llamadas' = r.llamadas
        /\ respondido' = TRUE
        /\ estado' = IF r.error THEN r.arg ELSE r.estado
        /\ UNCHANGED <<puras, usuarios, ajustes>>

Next == Turno

Spec == Init /\ [][Next]_vars

(***************************************************************************)
(* Properties of the dialogue.  t is the input of the last turn as the    *)
(* engine matches it (trimmed, lower case).                                *)
(***************************************************************************)
t == NormalizarTexto(entrada)

CuatroFases ==
  {"eligiendo_spot", "eligiendo_playa", "menu_consulta", "esperando_dia"}

Seleccion(fase, spot_key, playa_key) ==
  [fase |-> fase, spot_key |-> spot_key, playa_key |-> playa_key]

PalabrasVolver ==
  { <<"v">>, <<"v", "o", "l", "v", "e", "r">>, <<"a", "t", "r", "a", "s">>,
    <<"a", "t", "r", "á", "s">> }

PalabrasStart == { <<"s", "t", "a", "r", "t">>, <<"/", "s", "t", "a", "r", "t">> }

PalabraRestart == <<"r", "e", "s", "t", "a", "r", "t">>

PalabrasCambiarSpot ==
  { <<"c", "a", "m", "b", "i", "a", "r", " ", "s", "p", "o", "t">>,
    <<"/", "s", "p", "o", "t">> }

\* The inputs handled the same way in every phase.
Globales == PalabrasVolver \cup PalabrasStart \cup PalabrasCambiarSpot

HuboFallo == \E i \in 1..Len(llamadas) : llamadas[i].resultado = "error"

HuboDatos == \E i \in 1..Len(llamadas) : llamadas[i].resultado = "datos"

MensajesDeFallo ==
  {"no_pude_obtener_pronostico", "no_pude_obtener_datos", "no_pude_estimar"}

\* C1: in every state reached by turns from the initial state the phase is
\* one of the four phases and the selections agree with it: none in
\* eligiendo_spot; in eligiendo_playa a catalog site with more than one
\* beach and no beach; in menu_consulta and esperando_dia a catalog site and
\* a beach of that site.
C1_FaseYSelecciones ==
  /\ DOMAIN estado = {"fase", "spot_key", "playa_key"}
  /\ estado.fase \in CuatroFases
  /\ estado.fase = "eligiendo_spot" =>
       estado.spot_key = None /\ estado.playa_key = None
  /\ estado.fase = "eligiendo_playa" =>
       /\ EnSpots(estado.spot_key)
       /\ Len(Playas(estado.spot_key)) > 1
       /\ estado.playa_key = None
  /\ estado.fase \in {"menu_consulta", "esperando_dia"} =>
       EnPlayas(estado.spot_key, estado.playa_key)

C1_Testigo ==
  /\ respondido
  /\ previo.fase = "menu_consulta"
  /\ estado = Seleccion("esperando_dia", "mar_del_plata", "la_perla")

\* C2: every turn, whatever the state, the text and the provider's outcome,
\* returns a response text and a state whose phase is one of the four, and no
\* exception leaves the turn.
C2_NingunTurnoLanza ==
  respondido =>
    /\ ~error
    /\ respuesta # SinRespuesta
    /\ estado.fase \in CuatroFases

C4_VolverUnNivel ==
  respondido /\ t \in PalabrasVolver =>
    /\ ~error
    /\ previo.fase = "menu_consulta" =>
         IF Len(Playas(previo.spot_key)) > 1
         THEN /\ estado = Seleccion("eligiendo_playa", previo.spot_key, None)
              /\ respuesta = ListarPlayas(previo.spot_key)
         ELSE /\ estado = Seleccion("eligiendo_spot", None, None)
              /\ respuesta = ListarSpots
    /\ previo.fase = "esperando_dia" =>
         /\ estado = Seleccion("menu_consulta", previo.spot_key, previo.playa_key)
         /\ respuesta = TextoMenuConsultas(previo.spot_key, previo.playa_key)
    /\ previo.fase = "eligiendo_playa" =>
         /\ estado = Seleccion("eligiendo_spot", None, None)
         /\ respuesta = ListarSpots
    /\ previo.fase = "eligiendo_spot" =>
         /\ estado = previo
         /\ respuesta = ListarSpots

C4_Testigo ==
  /\ respondido
  /\ t \in PalabrasVolver
  /\ previo = Seleccion("menu_consulta", "mar_del_plata", "varese")
  /\ estado = Seleccion("eligiendo_playa", "mar_del_plata", None)

\* C5 as claimed: from every phase the inputs "start" and "restart" each give
\* eligiendo_spot with nothing selected and the site list.
C5_StartYRestartReinician ==
  respondido /\ t \in {<<"s", "t", "a", "r", "t">>, PalabraRestart} =>
    /\ estado = Seleccion("eligiendo_spot", None, None)
    /\ respuesta = ListarSpots

\* C5, amended: from every phase the inputs "start" and "/start" (and
\* "cambiar spot", "/spot") give eligiendo_spot with nothing selected and the
\* site list; "restart" is no keyword and is read as text of the phase.
C5_StartReinicia ==
  respondido /\ t \in PalabrasStart \cup PalabrasCambiarSpot =>
    /\ ~error
    /\ estado = Seleccion("eligiendo_spot", None, None)
    /\ respuesta = ListarSpots

C5_Testigo ==
  /\ respondido
  /\ t = <<"s", "t", "a", "r", "t">>
  /\ previo.fase = "esperando_dia"
  /\ estado = Seleccion("eligiendo_spot", None, None)

\* The first entry of a listing that a text names: its key is the text, or
\* its display name contains the text, case ignored.
Nombra(texto, entrada_cat) ==
  \/ texto = Lower(entrada_cat.clave)
  \/ Contiene(Lower(entrada_cat.nombre), texto)

\* As C7 reads it: the text is contained in the key or in the display name.
NombraPorSubcadena(texto, entrada_cat) ==
  \/ Contiene(Lower(entrada_cat.clave), texto)
  \/ Contiene(Lower(entrada_cat.nombre), texto)

\* C6: in eligiendo_spot a number k with 1 <= k <= number of sites selects
\* the k-th site of the catalog; the phase becomes menu_consulta with the
\* site's only beach selected when it has one beach, and eligiendo_playa with
\* no beach selected when it has several.
C6_SpotPorNumero ==
  respondido /\ previo.fase = "eligiendo_spot" /\ IntAcepta(t)
    /\ Entero(t) \in 1..Len(SPOTS) =>
      LET spot == SPOTS[Entero(t)]
      IN  /\ ~error
          /\ estado.spot_key = spot.key
          /\ IF Len(spot.playas) = 1
             THEN /\ estado.fase = "menu_consulta"
                  /\ estado.playa_key = spot.playas[1].key
             ELSE /\ estado.fase = "eligiendo_playa"
                  /\ estado.playa_key = None

C6_Testigo ==
  /\ respondido
  /\ previo.fase = "eligiendo_spot"
  /\ entrada = <<"0", "1">>
  /\ estado = Seleccion("eligiendo_playa", "mar_del_plata", None)

\* C7 as claimed: in eligiendo_spot a non-numeric text that is, case ignored,
\* contained in (or equal to) a site's key or display name selects the first
\* such site of the catalog.
C7_SpotPorSubcadena ==
  respondido /\ previo.fase = "eligiendo_spot" /\ ~IsDigit(t)
    /\ (\E i \in 1..Len(SPOTS) : NombraPorSubcadena(t, SPOTS[i])) =>
      estado.spot_key =
        SPOTS[Minimo({i \in 1..Len(SPOTS) : NombraPorSubcadena(t, SPOTS[i])})].key

\* C7, amended: in eligiendo_spot a non-numeric text that, case ignored,
\* equals a site's key, or equals or is contained in a site's display name,
\* selects the first such site of the catalog; a text only contained in a
\* key selects nothing.
C7_SpotPorTexto ==
  respondido /\ previo.fase = "eligiendo_spot" /\ ~IsDigit(t) =>
    LET nombrados == {i \in 1..Len(SPOTS) : Nombra(t, SPOTS[i])}
    IN  /\ ~error
        /\ nombrados # {} => estado.spot_key = SPOTS[Minimo(nombrados)].key
        /\ nombrados = {} => estado = previo

C7_Testigo ==
  /\ respondido
  /\ previo.fase = "eligiendo_spot"
  /\ entrada = <<"M", "I", "R", "A", "M", "A", "R">>
  /\ estado = Seleccion("menu_consulta", "miramar", "general")

C7_TestigoPrimero ==
  /\ respondido
  /\ previo.fase = "eligiendo_spot"
  /\ entrada = <<"m", "a", "r">>
  /\ Cardinality({i \in 1..Len(SPOTS) : Nombra(t, SPOTS[i])}) > 1
  /\ estado.spot_key = "mar_del_plata"

\* C8: in eligiendo_spot an input that selects nothing (the number 0, a
\* number above the number of sites, a text empty once trimmed, a text that
\* names no site) returns the state unchanged and the site list.
C8_NadaSeleccionado ==
  respondido /\ previo.fase = "eligiendo_spot"
    /\ \/ IntAcepta(t) /\ (Entero(t) = 0 \/ Entero(t) > Len(SPOTS))
       \/ t = <<>>
       \/ ~IsDigit(t) /\ \A i \in 1..Len(SPOTS) : ~NombraPorSubcadena(t, SPOTS[i])
    => /\ estado = previo
       /\ respuesta = ListarSpots

\* C9: in eligiendo_playa a number within the site's beaches, or a text that
\* names one, gives menu_consulta with that beach and the same site; any
\* other input that is not global leaves the state as it was and shows the
\* beach list again.
C9_EleccionDePlaya ==
  respondido /\ previo.fase = "eligiendo_playa" /\ t \notin Globales =>
    LET playas == Playas(previo.spot_key)
        nombradas == {i \in 1..Len(playas) : Nombra(t, playas[i])}
    IN  IF IntAcepta(t) /\ Entero(t) \in 1..Len(playas)
        THEN estado = Seleccion("menu_consulta", previo.spot_key,
                                playas[Entero(t)].key)
        ELSE IF ~IsDigit(t) /\ nombradas # {}
        THEN estado = Seleccion("menu_consulta", previo.spot_key,
                                playas[Minimo(nombradas)].key)
        ELSE /\ estado = previo
             /\ respuesta = ListarPlayas(previo.spot_key)

C10_TestigoOtroDia ==
  /\ respondido
  /\ previo.fase = "menu_consulta"
  /\ entrada = <<"3">>
  /\ estado.fase = "esperando_dia"

C11_TestigoReintento ==
  /\ respondido
  /\ previo = Seleccion("esperando_dia", "mar_del_plata", "la_perla")
  /\ entrada = <<"3", "1", "/", "0", "4">>
  /\ respuesta = TextoFechaNoEntendida
  /\ estado = previo

(***************************************************************************)
(* _parsear_fecha_desde_usuario called on its own: a text and the day of  *)
(* the call are drawn, the function is applied once.                       *)
(***************************************************************************)
\* valor while the call has not returned; once it has, valor is the
\* one-element sequence of the value returned.
Pendiente == <<>>

Devuelto == valor[1]

\* A number below 100 written with two digits, below 10000 with four.
DosCifras(n) ==
  <<DigitosDecimales[(n \div 10) + 1], DigitosDecimales[(n % 10) + 1]>>

CuatroCifras(n) == DosCifras(n \div 100) \o DosCifras(n % 100)

\* The texts dd<sep>mm and dd<sep>mm<sep>yyyy.
TextoDiaMes(d, m, sep) == DosCifras(d) \o <<sep>> \o DosCifras(m)

TextoDiaMesAnio(d, m, y, sep) ==
  DosCifras(d) \o <<sep>> \o DosCifras(m) \o <<sep>> \o CuatroCifras(y)

Separadores == {"/", "-"}

\* Days and months, one beyond the calendar's on each side.
NumerosDia == 0..32

NumerosMes == 0..13

\* Years typed by the user, and years of the day of the call: leap and not.
AniosTexto == {1900, 2023, 2024}

AniosHoy == {2023, 2024}

\* Texts of none of the four formats, and texts strptime accepts unpadded or
\* only once trimmed.
TextosSinFormato ==
  { <<>>,
    <<"h", "o", "y">>,
    <<"0", "9", ".", "1", "2">>,
    <<"0", "9", "/", "1", "2", "/", "2", "4">>,
    <<"0", "9", "-", "1", "2", "/", "2", "0", "2", "4">>,
    <<"2", "9", "/", "0", "2", "/">>,
    <<"0", "9", "/", "1", "2", "/", "2", "0", "2", "4", "5">>,
    <<"0", "9", "1", "2">> }

TextosSinRelleno ==
  { <<"9", "/", "1", "2">>,
    <<"9", "-", "1", "-", "2", "0", "2", "4">>,
    <<" ", "0", "9", "/", "1", "2", " ">> }

TextosDeFecha ==
  {TextoDiaMes(d, m, sep) : d \in NumerosDia, m \in NumerosMes, sep \in Separadores}
    \cup UNION {{TextoDiaMesAnio(d, m, y, sep) :
                   d \in NumerosDia, m \in NumerosMes, sep \in Separadores} :
                 y \in AniosTexto}
    \cup TextosSinFormato \cup TextosSinRelleno

InitFechas ==
  /\ InitDialogo
  /\ argumentos \in {[texto |-> x, hoy |-> Fecha(y, 6, 15)] :
                       x \in TextosDeFecha, y \in AniosHoy}
  /\ valor = Pendiente
  /\ SinUsuarios
  /\ SinAjustes

ParsearFecha ==
  /\ valor = Pendiente
  /\ valor' = <<ParsearFechaDesdeUsuario(argumentos.texto, argumentos.hoy)>>
  /\ UNCHANGED <<argumentos, dialogo, usuarios, ajustes>>

NextFechas == ParsearFecha

SpecFechas == InitFechas /\ [][NextFechas]_vars

\* d and m form a calendar date of year y.
FechaValida(y, m, d) == m \in 1..12 /\ d \in 1..DiasEnMes(y, m)

\* C12: for every day d and month m that form a calendar date of the year Y
\* of the call, 29 February of a leap Y included, dd/mm and dd-mm give the
\* date (Y, m, d); dd/mm/yyyy and dd-mm-yyyy give the date of the year
\* written; a text of none of the formats, or of no calendar date, gives no
\* date.
C12_FechaDelAnioEnCurso ==
  valor # Pendiente =>
    LET x == argumentos.texto
        Y == argumentos.hoy.y
    IN  /\ \A d \in NumerosDia, m \in NumerosMes, sep \in Separadores :
             /\ x = TextoDiaMes(d, m, sep) =>
                  Devuelto = IF FechaValida(Y, m, d) THEN Fecha(Y, m, d) ELSE NoFecha
             /\ \A y \in AniosTexto :
                  x = TextoDiaMesAnio(d, m, y, sep) =>
                    Devuelto = IF FechaValida(y, m, d) THEN Fecha(y, m, d) ELSE NoFecha
        /\ x \in TextosSinFormato => Devuelto = NoFecha

\* What the parser does give: as C12, except that 29/02 and 29-02 give no
\* date in any year.
C12_FechaSalvoBisiesto ==
  valor # Pendiente =>
    LET x == argumentos.texto
        Y == argumentos.hoy.y
    IN  /\ \A d \in NumerosDia, m \in NumerosMes, sep \in Separadores :
             /\ x = TextoDiaMes(d, m, sep) =>
                  Devuelto = IF FechaValida(Y, m, d) /\ ~(m = 2 /\ d = 29)
                          THEN Fecha(Y, m, d) ELSE NoFecha
             /\ \A y \in AniosTexto :
                  x = TextoDiaMesAnio(d, m, y, sep) =>
                    Devuelto = IF FechaValida(y, m, d) THEN Fecha(y, m, d) ELSE NoFecha
        /\ x \in TextosSinFormato => Devuelto = NoFecha

C12_TestigoBisiesto ==
  /\ argumentos.texto = <<"2", "9", "/", "0", "2">>
  /\ argumentos.hoy.y = 2024
  /\ valor = <<NoFecha>>

(***************************************************************************)
(* The caller's dict across calls.                                         *)
(***************************************************************************)
\* What the provider, the daylight lookup and date.today() gave in the last
\* turn, to be given again.
EntornoDelTurno ==
  Entorno(hoy,
          [i \in 1..Dias |->
             IF i <= Len(llamadas) THEN llamadas[i].resultado ELSE "datos"],
          IF Len(llamadas) = 1 /\ llamadas[1].resultado = "datos"
          THEN respuesta.luz ELSE TRUE)

\* The call of the last turn made once more: the same text, the dict the
\* caller passed, as the first call left it, and the same environment.
SegundaLlamada == ResponderMensaje(entrada, arg, EntornoDelTurno)

\* C13: responder_mensaje called twice with the same text and the same state
\* object, the provider, the daylight lookup and the date being the same,
\* gives the same response and the same new state (or raises) both times.
C13_DosLlamadasIguales ==
  respondido =>
    /\ SegundaLlamada.error = error
    /\ SegundaLlamada.resp = respuesta
    /\ ~error => SegundaLlamada.estado = estado

\* With the state given again by value, a dict equal to the one the first
\* call received, the two calls agree.
C13_DosLlamadasPorValor ==
  respondido =>
    LET r == ResponderMensaje(entrada, previo, EntornoDelTurno)
    IN  /\ r.error = error
        /\ r.resp = respuesta
        /\ ~error => r.estado = estado

C13_TestigoSegundaDistinta ==
  /\ respondido
  /\ previo = CrearEstadoInicial
  /\ entrada = <<"1">>
  /\ respuesta = ListarPlayas("mar_del_plata")
  /\ SegundaLlamada.resp = TextoMenuConsultas("mar_del_plata", "varese")

\* C14: the dict the caller passed has after the call the phase, site and
\* beach it had before it.
C14_ArgumentoIntacto ==
  respondido => arg = previo

C14_TestigoMutado ==
  /\ respondido
  /\ previo = CrearEstadoInicial
  /\ entrada = <<"4">>
  /\ arg = Seleccion("menu_consulta", "quequen", "monte_pasubio")

(***************************************************************************)
(* The Telegram adapter (bot_telegram.py): estados_usuarios and the       *)
(* handlers of two users, each a sequence of three steps: look up the     *)
(* user's slot, call responder_mensaje, store the state returned.  The    *)
(* dict looked up is the stored object itself, so what the engine assigns *)
(* to it shows in the slot at once.                                       *)
(***************************************************************************)
Usuarios == {1, 2}

TextosUsuarios ==
  { <<"1">>, <<"2">>, <<"4">>, <<"3">>, <<"v">>,
    <<"/", "s", "t", "a", "r", "t">>,
    <<"h", "o", "y">>,
    <<"0", "9", "/", "1", "2">>,
    <<"²">>,
    <<>> }

\* estados_usuarios.get(user_id, {})
ObtenerEstadoUsuario(almacen, user_id) == Get(almacen, user_id, <<>>)

\* Mutant of GuardarEstadoUsuario: the state is stored in every slot.
GuardarEnTodosLosUsuarios(almacen, user_id, est) ==
  [u \in (DOMAIN almacen) \cup {user_id} |-> est]

\* estados_usuarios[user_id] = estado
GuardarEstadoUsuario(almacen, user_id, est) == Put(almacen, user_id, est)

\* The slot of a user that has one, after the engine assigned to the dict
\* that was looked up.
AsignadoEnSitio(almacen, user_id, mutado) ==
  IF user_id \in DOMAIN almacen THEN Put(almacen, user_id, mutado) ELSE almacen

\* A handler with no other running: the store after it.
ManejarMensajeASolas(almacen, user_id, texto, env) ==
  LET r == ResponderMensaje(texto, ObtenerEstadoUsuario(almacen, user_id), env)
  IN  IF r.error THEN AsignadoEnSitio(almacen, user_id, r.arg)
      ELSE GuardarEstadoUsuario(AsignadoEnSitio(almacen, user_id, r.arg),
                                user_id, r.estado)

Libre ==
  [pc |-> "libre", texto |-> <<>>, estado_actual |-> <<>>, nuevo_estado |-> <<>>]

\* What the provider gives during a handler: data, or a failure.
EntornosUsuarios ==
  {EntornoBase(hoy), Entorno(hoy, [i \in 1..Dias |-> "error"], FALSE)}

InitUsuarios ==
  /\ InitDialogo
  /\ SinLlamadaPura
  /\ SinAjustes
  /\ estados_usuarios = <<>>
  /\ manejador = [u \in Usuarios |-> Libre]
  /\ solos = <<>>

\* estado_actual = _obtener_estado_usuario(user_id)
Buscar(u, texto) ==
  /\ manejador[u].pc = "libre"
  /\ manejador' = [manejador EXCEPT ![u] =
                     [pc |-> "buscado", texto |-> texto,
                      estado_actual |-> ObtenerEstadoUsuario(estados_usuarios, u),
                      nuevo_estado |-> <<>>]]
  /\ solos' = ManejarMensajeASolas(solos, u, texto, EntornoBase(hoy))
  /\ UNCHANGED <<estados_usuarios, dialogo, puras, ajustes>>

\* respuesta, nuevo_estado = responder_mensaje(texto_usuario, estado_actual);
\* an exception ends the handler.
Responder(u) ==
  /\ manejador[u].pc = "buscado"
  /\ \E env \in EntornosUsuarios :
       \E r \in {ResponderMensaje(manejador[u].texto,
                                  manejador[u].estado_actual, env)} :
         /\ estados_usuarios' = AsignadoEnSitio(estados_usuarios, u, r.arg)
         /\ manejador' = [manejador EXCEPT ![u] =
                            IF r.error THEN Libre
                            ELSE [pc |-> "respondido", texto |-> manejador[u].texto,
                                  estado_actual |-> r.arg,
                                  nuevo_estado |-> r.estado]]
  /\ UNCHANGED <<solos, dialogo, puras, ajustes>>

\* _guardar_estado_usuario(user_id, nuevo_estado)
Guardar(u) ==
  /\ manejador[u].pc = "respondido"
  /\ estados_usuarios' =
       GuardarEstadoUsuario(estados_usuarios, u, manejador[u].nuevo_estado)
  /\ manejador' = [manejador EXCEPT ![u] = Libre]
  /\ UNCHANGED <<solos, dialogo, puras, ajustes>>

NextUsuarios ==
  \E u \in Usuarios :
    \/ \E texto \in TextosUsuarios : Buscar(u, texto)
    \/ Responder(u)
    \/ Guardar(u)

SpecUsuarios == InitUsuarios /\ [][NextUsuarios]_vars

\* The slot of a user: the one-element sequence of the state stored, empty
\* when the user has none.
Slot(almacen, u) == IF u \in DOMAIN almacen THEN <<almacen[u]>> ELSE <<>>

\* C15: whatever the interleaving of the steps of the two users' handlers,
\* whenever a user's handler is not running the user's slot holds what the
\* user's own messages, handled with no other user present, leave in it.
C15_UsuariosNoInterfieren ==
  \A u \in Usuarios :
    manejador[u].pc = "libre" =>
      Slot(estados_usuarios, u) = Slot(solos, u)

C15_Testigo ==
  /\ manejador[1].pc = "libre"
  /\ manejador[2].pc = "respondido"
  /\ Get(manejador[2].nuevo_estado, "fase", None) = "eligiendo_playa"
  /\ Slot(estados_usuarios, 1) =
       << Seleccion("menu_consulta", "mar_del_plata", "la_perla") >>
  /\ Slot(estados_usuarios, 2) = <<>>

(***************************************************************************)
(* The adjustment store (ajustes_spots.py): ajustes_spots.json and two    *)
(* runs of actualizar_ajuste_param.  A run loads the whole file, sets its *)
(* parameter in memory, opens the file for writing, which empties it, and *)
(* writes the whole mapping.  Nothing keeps two runs apart.               *)
(***************************************************************************)
\* The file: whether it exists, whether its text is a JSON mapping, and the
\* mapping.  An emptied or half-written file exists and is not valid.
Archivo(existe, valido, datos) ==
  [existe |-> existe, valido |-> valido, datos |-> datos]

ArchivoInexistente == Archivo(FALSE, FALSE, <<>>)

ArchivoIlegible == Archivo(TRUE, FALSE, <<>>)

ArchivoCon(datos) == Archivo(TRUE, TRUE, datos)

\* Mutant of CargarTodo: the file is never read.
CargarTodoSinLeer(a) == <<>>

\* _cargar_todo: {} when the file is missing or json.load raises.
CargarTodo(a) ==
  IF ~a.existe THEN <<>>
  ELSE IF ~a.valido THEN <<>>
  ELSE a.datos

\* _clave: f"{spot_key}/{playa_key}", of the two keys as texts.
Clave(spot_key, playa_key) == spot_key \o <<"/">> \o playa_key

\* The key of the beach of a site of one beach.
ClaveDeUnica(spot_key) == Clave(Spot(spot_key).clave, Playas(spot_key)[1].clave)

\* Mutant of AsignarParam: the parameter set replaces the adjustments of the
\* key.
AsignarParamReemplazando(datos, key, param, v) ==
  Put(datos, key, Put(<<>>, param, v))

\* The body of actualizar_ajuste_param between the load and the save.
AsignarParam(datos, key, param, v) ==
  LET d == IF key \in DOMAIN datos THEN datos ELSE Put(datos, key, <<>>)
  IN  Put(d, key, Put(d[key], param, v))

Escritores == {1, 2}

ClavesAjuste == {ClaveDeUnica("miramar"), ClaveDeUnica("quequen")}

ParamsAjuste == {"delta_altura", "factor_periodo"}

\* The update of run p: its value tells the runs apart.
Actualizaciones(p) ==
  {[key |-> k, param |-> q, valor |-> p] : k \in ClavesAjuste, q \in ParamsAjuste}

\* The file before the two runs: missing, not JSON, or holding an entry.
ArchivosIniciales ==
  { ArchivoInexistente,
    ArchivoIlegible,
    ArchivoCon(AsignarParam(<<>>, ClaveDeUnica("miramar"), "delta_altura", 0)) }

EnCurso(p) == escritores[p].pc \in {"cargado", "abierto"}

InitAjustes ==
  /\ InitDialogo
  /\ SinLlamadaPura
  /\ SinUsuarios
  /\ archivo \in ArchivosIniciales
  /\ escritores \in {[p \in Escritores |->
                        [pc |-> "inicio", upd |-> IF p = 1 THEN u1 ELSE u2,
                         datos |-> <<>>]] :
                       u1 \in Actualizaciones(1), u2 \in Actualizaciones(2)}
  /\ historia = [base |-> CargarTodo(archivo), solapadas |-> FALSE,
                 orden |-> <<>>]

\* datos = _cargar_todo(); datos[key][param] = valor
Cargar(p) ==
  /\ escritores[p].pc = "inicio"
  /\ escritores' = [escritores EXCEPT ![p] =
       [pc |-> "cargado", upd |-> escritores[p].upd,
        datos |-> AsignarParam(CargarTodo(archivo), escritores[p].upd.key,
                               escritores[p].upd.param, escritores[p].upd.valor)]]
  /\ historia' = [historia EXCEPT !.solapadas =
                    historia.solapadas \/ \E q \in Escritores \ {p} : EnCurso(q)]
  /\ UNCHANGED <<archivo, dialogo, puras, usuarios>>

\* _guardar_todo: open(RUTA_ARCHIVO, "w") empties the file.
Abrir(p) ==
  /\ escritores[p].pc = "cargado"
  /\ archivo' = ArchivoIlegible
  /\ escritores' = [escritores EXCEPT ![p].pc = "abierto"]
  /\ UNCHANGED <<historia, dialogo, puras, usuarios>>

\* _guardar_todo: json.dump and close.  The text goes to the start of the
\* file: over an emptied file it is the file; over what another run wrote
\* since this one opened the file, it is the file when it is no shorter than
\* that text, and otherwise leaves that text's tail behind it.
Escribir(p) ==
  /\ escritores[p].pc = "abierto"
  /\ archivo' \in (IF archivo = ArchivoIlegible
                   THEN {ArchivoCon(escritores[p].datos)}
                   ELSE {ArchivoCon(escritores[p].datos), ArchivoIlegible})
  /\ escritores' = [escritores EXCEPT ![p].pc = "fin"]
  /\ historia' = [historia EXCEPT !.orden = Append(historia.orden, p)]
  /\ UNCHANGED <<dialogo, puras, usuarios>>

NextAjustes ==
  \E p \in Escritores :
    \/ Cargar(p)
    \/ Abrir(p)
    \/ Escribir(p)

SpecAjustes == InitAjustes /\ [][NextAjustes]_vars

\* The update u is in the mapping.
Presente(datos, u) ==
  /\ u.key \in DOMAIN datos
  /\ u.param \in DOMAIN datos[u.key]
  /\ datos[u.key][u.param] = u.valor

ConActualizacion(datos, u) == AsignarParam(datos, u.key, u.param, u.valor)

MismoDestino(u, w) == u.key = w.key /\ u.param = w.param

AmbasTerminaron == \A p \in Escritores : escritores[p].pc = "fin"

\* C16: once both updates have run.  If one ran after the other, the file
\* holds what it held before with both updates made in that order, so both
\* are present (of two updates of the same parameter of the same key, the
\* later value).  If they ran at the same time, the file is either not
\* readable or holds the update of the run that wrote last and not the
\* other one, which is lost.
C16_ActualizacionSinCerrojo ==
  AmbasTerminaron =>
    LET primera == escritores[historia.orden[1]].upd
        ultima == escritores[historia.orden[2]].upd
    IN  IF ~historia.solapadas
        THEN /\ archivo = ArchivoCon(ConActualizacion(
                            ConActualizacion(historia.base, primera), ultima))
             /\ Presente(archivo.datos, ultima)
             /\ ~MismoDestino(primera, ultima) => Presente(archivo.datos, primera)
        ELSE \/ archivo = ArchivoIlegible
             \/ /\ archivo.valido
                /\ Presente(archivo.datos, ultima)
                /\ ~Presente(archivo.datos, primera)
                /\ archivo.datos \in {ConActualizacion(historia.base, ultima),
                                      ConActualizacion(<<>>, ultima)}

\* An update lost: both runs over, to different keys, the file readable.
C16_Testigo ==
  /\ AmbasTerminaron
  /\ historia.solapadas
  /\ archivo.valido
  /\ escritores[1].upd.key # escritores[2].upd.key
  /\ Presente(archivo.datos, escritores[2].upd)
  /\ ~Presente(archivo.datos, escritores[1].upd)

\* One after the other, to the same key: both present.
C16_TestigoEnSerie ==
  /\ AmbasTerminaron
  /\ ~historia.solapadas
  /\ escritores[1].upd.key = escritores[2].upd.key
  /\ Presente(archivo.datos, escritores[1].upd)
  /\ Presente(archivo.datos, escritores[2].upd)

\* At the same time, the file left unreadable.
C16_TestigoIlegible ==
  /\ AmbasTerminaron
  /\ archivo = ArchivoIlegible

(***************************************************************************)
(* Scoring (pronostico_api.py).  A float is the integer number of         *)
(* 1/Escala units it holds; the inputs drawn are multiples of a tenth,    *)
(* for which every product and quotient below is exact.                   *)
(***************************************************************************)
\* Units per 1.0.
Escala == 1500

\* The float n/d.
Decimal(n, d) == (n * Escala) \div d

Mul(a, b) == (a * b) \div Escala

Div(a, b) == (a * Escala) \div b

Abs(a) == IF a < 0 THEN -a ELSE a

Min2(a, b) == IF b < a THEN b ELSE a

Max2(a, b) == IF b > a THEN b ELSE a

\* PuntoOla, the fields the score reads; viento_vel_kmh is the empty
\* sequence for None, else the one-element sequence of the speed.
PuntoOla(dt, altura_m, periodo_s, viento_vel_kmh, score) ==
  [dt |-> dt, altura_m |-> altura_m, periodo_s |-> periodo_s,
   viento_vel_kmh |-> viento_vel_kmh, score |-> score]

\* Mutant of ScorePunto: the wind thresholds are strict.
ScorePuntoVientoEstricto(p) ==
  LET h == p.altura_m
      T == p.periodo_s
      v == p.viento_vel_kmh
  IN  IF h <= 0 \/ T <= 0 THEN 0
      ELSE LET factor_h == Max2(0, Decimal(1, 1) - Div(Abs(h - Decimal(12, 10)), Decimal(12, 10)))
               factor_T ==
                 IF T < Decimal(6, 1) THEN 0
                 ELSE IF T < Decimal(9, 1)
                 THEN Mul((T - Decimal(6, 1)) \div 3, Decimal(6, 10))
                 ELSE Decimal(6, 10)
                        + Min2(Mul((T - Decimal(9, 1)) \div 5, Decimal(4, 10)),
                               Decimal(4, 10))
               viento ==
                 IF v = <<>> THEN 0
                 ELSE IF v[1] < Decimal(5, 1) THEN Decimal(20, 1)
                 ELSE IF v[1] < Decimal(10, 1) THEN Decimal(10, 1)
                 ELSE 0
               score == Mul(factor_h, Decimal(40, 1)) + Mul(factor_T, Decimal(40, 1))
                          + viento
           IN  Max2(0, Min2(Decimal(100, 1), score))

\* Mutant of ScorePunto: neither the height factor nor the result is bounded.
ScorePuntoSinAcotar(p) ==
  LET h == p.altura_m
      T == p.periodo_s
      v == p.viento_vel_kmh
  IN  IF h <= 0 \/ T <= 0 THEN 0
      ELSE LET factor_h == Decimal(1, 1) - Div(Abs(h - Decimal(12, 10)), Decimal(12, 10))
               factor_T ==
                 IF T < Decimal(6, 1) THEN 0
                 ELSE IF T < Decimal(9, 1)
                 THEN Mul((T - Decimal(6, 1)) \div 3, Decimal(6, 10))
                 ELSE Decimal(6, 10)
                        + Min2(Mul((T - Decimal(9, 1)) \div 5, Decimal(4, 10)),
                               Decimal(4, 10))
               viento ==
                 IF v = <<>> THEN 0
                 ELSE IF v[1] <= Decimal(5, 1) THEN Decimal(20, 1)
                 ELSE IF v[1] <= Decimal(10, 1) THEN Decimal(10, 1)
                 ELSE 0
           IN  Mul(factor_h, Decimal(40, 1)) + Mul(factor_T, Decimal(40, 1)) + viento

\* _score_punto
ScorePunto(p) ==
  LET h == p.altura_m
      T == p.periodo_s
      v == p.viento_vel_kmh
  IN  IF h <= 0 \/ T <= 0 THEN 0
      ELSE LET ideal_h == Decimal(12, 10)
               diff_h == Abs(h - ideal_h)
               factor_h == Max2(0, Decimal(1, 1) - Div(diff_h, Decimal(12, 10)))
               factor_T ==
                 IF T < Decimal(6, 1) THEN 0
                 ELSE IF T < Decimal(9, 1)
                 THEN Mul((T - Decimal(6, 1)) \div 3, Decimal(6, 10))
                 ELSE Decimal(6, 10)
                        + Min2(Mul((T - Decimal(9, 1)) \div 5, Decimal(4, 10)),
                               Decimal(4, 10))
               viento ==
                 IF v = <<>> THEN 0
                 ELSE IF v[1] <= Decimal(5, 1) THEN Decimal(20, 1)
                 ELSE IF v[1] <= Decimal(10, 1) THEN Decimal(10, 1)
                 ELSE 0
               score == Mul(factor_h, Decimal(40, 1)) + Mul(factor_T, Decimal(40, 1))
                          + viento
           IN  Max2(0, Min2(Decimal(100, 1), score))

\* _calcular_scores: every point's score is set.
CalcularScores(puntos) ==
  [i \in 1..Len(puntos) |-> [puntos[i] EXCEPT !.score = ScorePunto(puntos[i])]]

\* Length of the series of extreme observations scored at once.
MaxSerie == 2

\* Heights from -0.3 m to 3.0 m by tenths, periods from -1 s to 16 s by
\* halves and a tenth to each side of 6, 9 and 14 s, winds around 5 and 10
\* km/h and unknown.
AlturasGrilla == {Decimal(k, 10) : k \in -3..30}

PeriodosGrilla ==
  {Decimal(k, 2) : k \in -2..32}
    \cup {Decimal(k, 10) : k \in {1, 59, 61, 89, 91, 139, 141}}

VientosGrilla ==
  {<<>>} \cup {<<Decimal(k, 10)>> : k \in {-100, 0, 49, 50, 51, 75, 99, 100, 101, 400}}

\* Observations of great magnitude, of either sign.
Extremos == {Decimal(-500, 1), Decimal(12, 10), Decimal(500, 1)}

PuntosGrilla ==
  {PuntoOla(1, h, T, v, 0) : h \in AlturasGrilla, T \in PeriodosGrilla, v \in VientosGrilla}

PuntosExtremos ==
  {PuntoOla(1, h, T, v, 0) :
     h \in Extremos, T \in Extremos, v \in {<<>>} \cup {<<x>> : x \in Extremos}}

SeriesDePuntos ==
  {<<p>> : p \in PuntosGrilla}
    \cup UNION {[1..n -> PuntosExtremos] : n \in 0..MaxSerie}

InitScores ==
  /\ InitDialogo
  /\ SinUsuarios
  /\ SinAjustes
  /\ argumentos \in {[puntos |-> s] : s \in SeriesDePuntos}
  /\ valor = Pendiente

LlamarCalcularScores ==
  /\ valor = Pendiente
  /\ valor' = <<CalcularScores(argumentos.puntos)>>
  /\ UNCHANGED <<argumentos, dialogo, usuarios, ajustes>>

NextScores == LlamarCalcularScores

SpecScores == InitScores /\ [][NextScores]_vars

\* The value at x of the line through (x0, y0) and (x1, y1).
Lineal(x, x0, y0, x1, y1) == y0 + ((y1 - y0) * (x - x0)) \div (x1 - x0)

ComponenteAltura(h) ==
  LET lejos == Abs(h - Decimal(12, 10))
  IN  IF lejos >= Decimal(12, 10) THEN 0
      ELSE (40 * (Decimal(12, 10) - lejos) * Escala) \div Decimal(12, 10)

ComponentePeriodo(T) ==
  IF T < Decimal(6, 1) THEN 0
  ELSE IF T <= Decimal(9, 1)
  THEN Lineal(T, Decimal(6, 1), 0, Decimal(9, 1), Decimal(24, 1))
  ELSE IF T <= Decimal(14, 1)
  THEN Lineal(T, Decimal(9, 1), Decimal(24, 1), Decimal(14, 1), Decimal(40, 1))
  ELSE Decimal(40, 1)

ComponenteViento(v) ==
  IF v # <<>> /\ v[1] <= Decimal(5, 1) THEN Decimal(20, 1)
  ELSE IF v # <<>> /\ v[1] <= Decimal(10, 1) THEN Decimal(10, 1)
  ELSE 0

\* C17: the score of an observation is exactly 0 when its height or its
\* period is not positive; otherwise it is the sum, kept within 0 and 100,
\* of the height component 40 * max(0, 1 - |h - 1.2| / 1.2), the period
\* component (0 below 6 s, the line from 0 at 6 s to 24 at 9 s, the line
\* from 24 at 9 s to 40 at 14 s, 40 from 14 s on) and the wind component
\* (20 for a known wind of at most 5 km/h, 10 for one of at most 10 km/h,
\* 0 above that or unknown).
C17_ScorePorComponentes ==
  valor # Pendiente =>
    \A i \in 1..Len(Devuelto) :
      LET p == Devuelto[i]
          suma == ComponenteAltura(p.altura_m) + ComponentePeriodo(p.periodo_s)
                    + ComponenteViento(p.viento_vel_kmh)
      IN  p.score = IF p.altura_m <= 0 \/ p.periodo_s <= 0 THEN 0
                    ELSE Max2(0, Min2(Decimal(100, 1), suma))

\* 1.0 m, 10 s, wind 7.5 km/h: 33.33.. + 27.2 + 10
C17_Testigo ==
  /\ valor # Pendiente
  /\ Len(Devuelto) = 1
  /\ Devuelto[1].altura_m = Decimal(10, 10)
  /\ Devuelto[1].periodo_s = Decimal(10, 1)
  /\ Devuelto[1].viento_vel_kmh = <<Decimal(75, 10)>>
  /\ Devuelto[1].score = Decimal(100, 3) + Decimal(272, 10) + Decimal(10, 1)

\* C18: whatever the size and the sign of height, period and wind, the score
\* of every observation of a scored series lies within 0 and 100, and the
\* series keeps its length and its observations.
C18_ScoreAcotado ==
  valor # Pendiente =>
    /\ Len(Devuelto) = Len(argumentos.puntos)
    /\ \A i \in 1..Len(Devuelto) :
         /\ Devuelto[i].score >= 0
         /\ Devuelto[i].score <= Decimal(100, 1)
         /\ [Devuelto[i] EXCEPT !.score = 0] = argumentos.puntos[i]

\* A series of two: 500 m of height scores 0 + 40 + 20, the ideal height
\* with the best period and wind scores 100.
C18_Testigo ==
  /\ valor # Pendiente
  /\ Len(Devuelto) = 2
  /\ Devuelto[1].altura_m = Decimal(500, 1)
  /\ Devuelto[1].periodo_s = Decimal(500, 1)
  /\ Devuelto[1].viento_vel_kmh = <<Decimal(-500, 1)>>
  /\ Devuelto[1].score = Decimal(60, 1)
  /\ Devuelto[2].altura_m = Decimal(12, 10)
  /\ Devuelto[2].score = Decimal(100, 1)

(***************************************************************************)
(* _score_a_estrellas called on its own.                                   *)
(***************************************************************************)
\* round() of a float: the nearest integer, of two equally near the even one.
Round(x) ==
  LET q == x \div Escala
      r == x % Escala
  IN  IF 2 * r < Escala THEN q
      ELSE IF 2 * r > Escala THEN q + 1
      ELSE IF q % 2 = 0 THEN q ELSE q + 1

\* The star of a rating (U+2605), written here as an asterisk.
Estrella == "*"

\* Estrella * n
Repetir(c, n) == [i \in 1..n |-> c]

\* Mutant of ScoreAEstrellas: a half is rounded up.
ScoreAEstrellasMitadArriba(score) ==
  IF score < Decimal(15, 1) THEN <<"-">>
  ELSE LET x == Div(score, Decimal(20, 1))
           r == IF 2 * (x % Escala) < Escala THEN x \div Escala
                ELSE (x \div Escala) + 1
       IN  Repetir(Estrella, Max2(1, Min2(5, r)))

\* _score_a_estrellas
ScoreAEstrellas(score) ==
  IF score < Decimal(15, 1) THEN <<"-">>
  ELSE LET estrellas == Max2(1, Min2(5, Round(Div(score, Decimal(20, 1)))))
       IN  Repetir(Estrella, estrellas)

\* The step of the scores drawn, 1/75, and the scores: from -2 to 110.
PasoScore == Decimal(1, 75)

ScoresGrilla == {k * PasoScore : k \in (-2 * 75)..(110 * 75)}

InitEstrellas ==
  /\ InitDialogo
  /\ SinUsuarios
  /\ SinAjustes
  /\ argumentos \in {[score |-> s] : s \in ScoresGrilla}
  /\ valor = Pendiente

LlamarScoreAEstrellas ==
  /\ valor = Pendiente
  /\ valor' = <<ScoreAEstrellas(argumentos.score)>>
  /\ UNCHANGED <<argumentos, dialogo, usuarios, ajustes>>

NextEstrellas == LlamarScoreAEstrellas

SpecEstrellas == InitEstrellas /\ [][NextEstrellas]_vars

\* A rating as a number: 0 for the no-rating marker, else the stars.
Rango(marca) == IF marca = <<"-">> THEN 0 ELSE Len(marca)

\* n is score/20 rounded: the integer nearest to it, and the even one when
\* two are equally near.
EsRedondeoDe(n, score) ==
  LET lejos == Abs(score - n * Decimal(20, 1))
  IN  \/ lejos < Decimal(10, 1)
      \/ lejos = Decimal(10, 1) /\ n % 2 = 0

\* C19: the rating does not decrease as the score grows; it is the
\* no-rating marker for every score below 15; for every score from 15 to 100
\* it is between one and five stars, as many as score/20 rounded (a half
\* going to the even neighbour: two stars at 50, four at 90); above 100 it
\* is five stars.
C19_EstrellasPorScore ==
  valor # Pendiente =>
    LET score == argumentos.score
    IN  /\ Rango(Devuelto) >= Rango(ScoreAEstrellas(score - PasoScore))
        /\ score < Decimal(15, 1) => Devuelto = <<"-">>
        /\ score >= Decimal(15, 1) =>
             /\ Devuelto = Repetir(Estrella, Len(Devuelto))
             /\ Len(Devuelto) \in 1..5
        /\ score >= Decimal(15, 1) /\ score <= Decimal(100, 1) =>
             EsRedondeoDe(Len(Devuelto), score)
        /\ score > Decimal(100, 1) => Len(Devuelto) = 5

C19_Testigo ==
  /\ valor # Pendiente
  /\ argumentos.score = Decimal(50, 1)
  /\ Devuelto = <<Estrella, Estrella>>

C19_TestigoSinMarca ==
  /\ valor # Pendiente
  /\ argumentos.score = Decimal(15, 1) - PasoScore
  /\ Devuelto = <<"-">>

(***************************************************************************)
(* _agrupar_mejores_ventanas called on its own, on scored points at the   *)
(* hours 1, 2, ...                                                         *)
(***************************************************************************)
\* sum() of a list of floats.
RECURSIVE Suma(_)
Suma(s) == IF s = <<>> THEN 0 ELSE s[1] + Suma(Tail(s))

\* (inicio, fin, promedio)
Ventana(inicio, fin, promedio) ==
  [inicio |-> inicio, fin |-> fin, promedio |-> promedio]

\* No window is open: actual_inicio is None.
SinInicio == 0

\* Mutant of RecorrerPuntos: a window closed by a point below the threshold
\* ends at the hour of the point before it.
RECURSIVE RecorrerPuntosFinEnUltimaAlta(_, _, _, _, _, _)
RecorrerPuntosFinEnUltimaAlta(puntos, i, umbral_score, ventanas, actual_inicio, scores_actuales) ==
  IF i > Len(puntos)
  THEN IF actual_inicio # SinInicio /\ scores_actuales # <<>>
       THEN Append(ventanas,
                   Ventana(actual_inicio, puntos[Len(puntos)].dt,
                           Suma(scores_actuales) \div Len(scores_actuales)))
       ELSE ventanas
  ELSE LET p == puntos[i]
       IN  IF p.score >= umbral_score
           THEN IF actual_inicio = SinInicio
                THEN RecorrerPuntosFinEnUltimaAlta(puntos, i + 1, umbral_score,
                       ventanas, p.dt, <<p.score>>)
                ELSE RecorrerPuntosFinEnUltimaAlta(puntos, i + 1, umbral_score,
                       ventanas, actual_inicio, Append(scores_actuales, p.score))
           ELSE IF actual_inicio # SinInicio
                THEN RecorrerPuntosFinEnUltimaAlta(puntos, i + 1, umbral_score,
                       Append(ventanas,
                              Ventana(actual_inicio, puntos[i - 1].dt,
                                      Suma(scores_actuales) \div Len(scores_actuales))),
                       SinInicio, <<>>)
                ELSE RecorrerPuntosFinEnUltimaAlta(puntos, i + 1, umbral_score,
                       ventanas, SinInicio, <<>>)

\* Mutant of RecorrerPuntos: a point below the threshold closes the window
\* without actual_inicio = None and scores_actuales = [].
RECURSIVE RecorrerPuntosSinReiniciar(_, _, _, _, _, _)
RecorrerPuntosSinReiniciar(puntos, i, umbral_score, ventanas, actual_inicio, scores_actuales) ==
  IF i > Len(puntos)
  THEN IF actual_inicio # SinInicio /\ scores_actuales # <<>>
       THEN Append(ventanas,
                   Ventana(actual_inicio, puntos[Len(puntos)].dt,
                           Suma(scores_actuales) \div Len(scores_actuales)))
       ELSE ventanas
  ELSE LET p == puntos[i]
       IN  IF p.score >= umbral_score
           THEN IF actual_inicio = SinInicio
                THEN RecorrerPuntosSinReiniciar(puntos, i + 1, umbral_score,
                       ventanas, p.dt, <<p.score>>)
                ELSE RecorrerPuntosSinReiniciar(puntos, i + 1, umbral_score,
                       ventanas, actual_inicio, Append(scores_actuales, p.score))
           ELSE IF actual_inicio # SinInicio
                THEN RecorrerPuntosSinReiniciar(puntos, i + 1, umbral_score,
                       Append(ventanas,
                              Ventana(actual_inicio, p.dt,
                                      Suma(scores_actuales) \div Len(scores_actuales))),
                       actual_inicio, scores_actuales)
                ELSE RecorrerPuntosSinReiniciar(puntos, i + 1, umbral_score,
                       ventanas, SinInicio, <<>>)

\* The for loop from point i on: ventanas so far, the start of the open
\* window and its scores.
RECURSIVE RecorrerPuntos(_, _, _, _, _, _)
RecorrerPuntos(puntos, i, umbral_score, ventanas, actual_inicio, scores_actuales) ==
  IF i > Len(puntos)
  THEN IF actual_inicio # SinInicio /\ scores_actuales # <<>>
       THEN Append(ventanas,
                   Ventana(actual_inicio, puntos[Len(puntos)].dt,
                           Suma(scores_actuales) \div Len(scores_actuales)))
       ELSE ventanas
  ELSE LET p == puntos[i]
       IN  IF p.score >= umbral_score
           THEN IF actual_inicio = SinInicio
                THEN RecorrerPuntos(puntos, i + 1, umbral_score, ventanas,
                                    p.dt, <<p.score>>)
                ELSE RecorrerPuntos(puntos, i + 1, umbral_score, ventanas,
                                    actual_inicio, Append(scores_actuales, p.score))
           ELSE IF actual_inicio # SinInicio
                THEN RecorrerPuntos(puntos, i + 1, umbral_score,
                       Append(ventanas,
                              Ventana(actual_inicio, p.dt,
                                      Suma(scores_actuales) \div Len(scores_actuales))),
                       SinInicio, <<>>)
                ELSE RecorrerPuntos(puntos, i + 1, umbral_score, ventanas,
                                    SinInicio, <<>>)

\* list.sort(key=lambda v: v[2], reverse=True): stable, so of two windows of
\* equal average the one found first stays first.  Each window goes behind
\* those already placed whose average is no smaller.
RECURSIVE OrdenarPorPromedio(_)
OrdenarPorPromedio(ventanas) ==
  IF ventanas = <<>> THEN <<>>
  ELSE LET n == Len(ventanas)
           antes == OrdenarPorPromedio(SubSeq(ventanas, 1, n - 1))
           v == ventanas[n]
           k == Cardinality({j \in 1..Len(antes) : antes[j].promedio >= v.promedio})
       IN  SubSeq(antes, 1, k) \o <<v>> \o SubSeq(antes, k + 1, Len(antes))

\* ventanas[:max_ventanas], max_ventanas >= 0
Primeras(ventanas, n) == SubSeq(ventanas, 1, Min2(n, Len(ventanas)))

\* Mutant of AgruparMejoresVentanas: the windows are not sorted.
AgruparSinOrdenar(puntos, umbral_score, max_ventanas) ==
  Primeras(RecorrerPuntos(puntos, 1, umbral_score, <<>>, SinInicio, <<>>),
           max_ventanas)

\* _agrupar_mejores_ventanas
AgruparMejoresVentanas(puntos, umbral_score, max_ventanas) ==
  Primeras(OrdenarPorPromedio(
             RecorrerPuntos(puntos, 1, umbral_score, <<>>, SinInicio, <<>>)),
           max_ventanas)

\* Points of a day.
MaxPuntos == 7

ScoresDePuntos == {Decimal(60, 1), Decimal(70, 1), Decimal(90, 1)}

Umbrales == {Decimal(65, 1), Decimal(75, 1)}

\* max_ventanas: 3 where the program calls, and below.
MaximosDeVentanas == 0..3

\* The points at hours 1..n with the scores s.
PuntosCon(s) ==
  [i \in 1..Len(s) |-> PuntoOla(i, Decimal(12, 10), Decimal(10, 1), <<>>, s[i])]

\* Seven points, hourly from 06:00, with scores 70, 72, 50, 80, 85, 90, 40.
PuntosDeLaManiana ==
  LET s == <<70, 72, 50, 80, 85, 90, 40>>
  IN  [i \in 1..Len(s) |->
         PuntoOla(5 + i, Decimal(12, 10), Decimal(10, 1), <<>>, Decimal(s[i], 1))]

SeriesParaVentanas ==
  {PuntosCon(s) : s \in UNION {[1..n -> ScoresDePuntos] : n \in 0..MaxPuntos}}
    \cup {PuntosDeLaManiana}

InitVentanas ==
  /\ InitDialogo
  /\ SinUsuarios
  /\ SinAjustes
  /\ argumentos \in
       {[puntos |-> s, umbral_score |-> u, max_ventanas |-> m] :
          s \in SeriesParaVentanas, u \in Umbrales, m \in MaximosDeVentanas}
  /\ valor = Pendiente

LlamarAgruparMejoresVentanas ==
  /\ valor = Pendiente
  /\ valor' = <<AgruparMejoresVentanas(argumentos.puntos,
                  argumentos.umbral_score, argumentos.max_ventanas)>>
  /\ UNCHANGED <<argumentos, dialogo, usuarios, ajustes>>

NextVentanas == LlamarAgruparMejoresVentanas

SpecVentanas == InitVentanas /\ [][NextVentanas]_vars

\* The blocks of the points: the longest runs a..b of points at or above the
\* threshold, each as the window it gives: from a's hour to the hour of the
\* point after b (of b when b is the last), with the average of the run.
BloquesDe(puntos, umbral) ==
  LET n == Len(puntos)
      Alto(i) == puntos[i].score >= umbral
      EsBloque(a, b) ==
        /\ a <= b
        /\ \A i \in a..b : Alto(i)
        /\ a = 1 \/ ~Alto(a - 1)
        /\ b = n \/ ~Alto(b + 1)
  IN  {Ventana(puntos[w[1]].dt,
               puntos[IF w[2] < n THEN w[2] + 1 ELSE n].dt,
               Suma([i \in 1..(w[2] - w[1] + 1) |-> puntos[w[1] + i - 1].score])
                 \div (w[2] - w[1] + 1)) :
         w \in {x \in (1..n) \X (1..n) : EsBloque(x[1], x[2])}}

\* C20: the windows returned are blocks of the points, no more than
\* max_ventanas and as many as the blocks allow; they are in descending
\* order of average, and of two with the same average the one found first
\* (the earlier one) comes first; every block left out has an average no
\* greater than that of every window returned.
C20_MejoresVentanas ==
  valor # Pendiente =>
    LET res == Devuelto
        bloques == BloquesDe(argumentos.puntos, argumentos.umbral_score)
        devueltas == {res[i] : i \in 1..Len(res)}
    IN  /\ Len(res) <= argumentos.max_ventanas
        /\ Len(res) = Min2(argumentos.max_ventanas, Cardinality(bloques))
        /\ devueltas \subseteq bloques
        /\ Cardinality(devueltas) = Len(res)
        /\ \A i \in 1..Len(res) : \A j \in (i + 1)..Len(res) :
             /\ res[i].promedio >= res[j].promedio
             /\ res[i].promedio = res[j].promedio => res[i].inicio < res[j].inicio
        /\ \A w \in bloques \ devueltas : \A i \in 1..Len(res) :
             /\ w.promedio <= res[i].promedio
             /\ w.promedio = res[i].promedio => res[i].inicio < w.inicio

\* Four blocks, three returned: 90 first though found after one of 70, the
\* two earliest of 70 in time order, the last of 70 left out.
C20_Testigo ==
  /\ valor # Pendiente
  /\ argumentos.max_ventanas = 3
  /\ Cardinality(BloquesDe(argumentos.puntos, argumentos.umbral_score)) = 4
  /\ Len(Devuelto) = 3
  /\ Devuelto[1].promedio = Decimal(90, 1)
  /\ Devuelto[2].promedio = Decimal(70, 1)
  /\ Devuelto[3].promedio = Decimal(70, 1)
  /\ Devuelto[2].inicio < Devuelto[3].inicio
  /\ Devuelto[1].inicio > Devuelto[2].inicio

\* The runs of the points: the pairs a, b of positions such that every point
\* from a to b is at or above the threshold and neither the point before a
\* nor the point after b is.
RachasDe(puntos, umbral) ==
  {x \in (1..Len(puntos)) \X (1..Len(puntos)) :
     /\ x[1] <= x[2]
     /\ \A i \in x[1]..x[2] : puntos[i].score >= umbral
     /\ x[1] = 1 \/ puntos[x[1] - 1].score < umbral
     /\ x[2] = Len(puntos) \/ puntos[x[2] + 1].score < umbral}

\* C21: when max_ventanas does not cut the list, the windows returned are one
\* for each longest run of consecutive points at or above the threshold and
\* no other; the window of a run starts at the hour of the run's first point,
\* ends at the hour of the point below the threshold that follows the run or,
\* when the run reaches the end, at the hour of the last point, and has the
\* mean of the scores of the run's points, to the unit of the scores, as its
\* average.  The scores 70, 72,
\* 50, 80, 85, 90, 40 hourly from 06:00 with threshold 65 give 09:00 to 12:00
\* first and 06:00 to 08:00 second.
C21_UnaVentanaPorRacha ==
  valor # Pendiente =>
    LET puntos == argumentos.puntos
        n == Len(puntos)
        rachas == RachasDe(puntos, argumentos.umbral_score)
        res == Devuelto
        DeRacha(w, x) ==
          /\ w.inicio = puntos[x[1]].dt
          /\ w.fin = IF x[2] < n THEN puntos[x[2] + 1].dt ELSE puntos[n].dt
          /\ LET total ==
                   Suma([i \in 1..(x[2] - x[1] + 1) |-> puntos[x[1] + i - 1].score])
             IN  /\ w.promedio * (x[2] - x[1] + 1) <= total
                 /\ total < (w.promedio + 1) * (x[2] - x[1] + 1)
    IN  /\ \A i \in 1..Len(res) : \E x \in rachas : DeRacha(res[i], x)
        /\ Cardinality(rachas) <= argumentos.max_ventanas =>
             /\ Len(res) = Cardinality(rachas)
             /\ \A x \in rachas :
                  Cardinality({i \in 1..Len(res) : DeRacha(res[i], x)}) = 1
        /\ (puntos = PuntosDeLaManiana /\ argumentos.umbral_score = Decimal(65, 1)
              /\ argumentos.max_ventanas >= 2) =>
             res = << Ventana(9, 12, Decimal(85, 1)), Ventana(6, 8, Decimal(71, 1)) >>

C21_Testigo ==
  /\ valor # Pendiente
  /\ argumentos.puntos = PuntosDeLaManiana
  /\ argumentos.umbral_score = Decimal(65, 1)
  /\ argumentos.max_ventanas = 3
  /\ Devuelto = << Ventana(9, 12, Decimal(85, 1)), Ventana(6, 8, Decimal(71, 1)) >>

\* A run that reaches the end of the series ends at its own last hour.
C21_TestigoHastaElFinal ==
  /\ valor # Pendiente
  /\ Len(argumentos.puntos) = 3
  /\ argumentos.max_ventanas = 3
  /\ Devuelto = << Ventana(2, 3, Decimal(80, 1)) >>

(***************************************************************************)
(* The three reports, from the day's observations to the values they      *)
(* render: obtener_pronostico_formateado (pronostico_api.py),             *)
(* _mejor_horario_en_dia and _mejor_dia_semana (core_bot_olas.py).  A     *)
(* report is the record of the values its lines are formatted from.  A    *)
(* time of day is its hour.                                                *)
(***************************************************************************)
\* A time that may be None: the empty sequence, else the one hour.
SinHora == <<>>

\* What _obtener_sunrise_sunset returns.
Luz(amanecer, atardecer) == [amanecer |-> amanecer, atardecer |-> atardecer]

\* Mutant of AplicarAjustes: every value of the adjustments is a delta of
\* the height.
AplicarAjustesTodasLasClaves(altura_base, periodo_base, ajustes_playa) ==
  LET RECURSIVE Total(_)
      Total(S) == IF S = {} THEN 0
                  ELSE LET k == CHOOSE x \in S : TRUE
                       IN  ajustes_playa[k] + Total(S \ {k})
      factor_periodo == Get(ajustes_playa, "factor_periodo", Decimal(1, 1))
  IN  <<altura_base + Total(DOMAIN ajustes_playa \ {"factor_periodo"}),
        Mul(periodo_base, factor_periodo)>>

\* Mutant of AplicarAjustes: an absent factor_periodo counts as 0.
AplicarAjustesFactorCero(altura_base, periodo_base, ajustes_playa) ==
  <<altura_base + Get(ajustes_playa, "delta_altura", 0),
    Mul(periodo_base, Get(ajustes_playa, "factor_periodo", 0))>>

\* aplicar_ajustes
AplicarAjustes(altura_base, periodo_base, ajustes_playa) ==
  LET delta_altura == Get(ajustes_playa, "delta_altura", 0)
      factor_periodo == Get(ajustes_playa, "factor_periodo", Decimal(1, 1))
  IN  <<altura_base + delta_altura, Mul(periodo_base, factor_periodo)>>

\* Mutant of FiltrarHorasLuz: the points of daylight are returned even when
\* there is none.
FiltrarHorasLuzSinReserva(puntos, luz) ==
  IF luz.amanecer = SinHora \/ luz.atardecer = SinHora
  THEN [puntos |-> puntos, amanecer |-> SinHora, atardecer |-> SinHora]
  ELSE [puntos |-> SelectSeq(puntos, LAMBDA p : luz.amanecer[1] <= p.dt
                                                 /\ p.dt < luz.atardecer[1]),
        amanecer |-> luz.amanecer, atardecer |-> luz.atardecer]

\* Mutant of FiltrarHorasLuz: the hour of the sunset is daylight.
FiltrarHorasLuzConAtardecer(puntos, luz) ==
  IF luz.amanecer = SinHora \/ luz.atardecer = SinHora
  THEN [puntos |-> puntos, amanecer |-> SinHora, atardecer |-> SinHora]
  ELSE LET filtrados == SelectSeq(puntos, LAMBDA p : luz.amanecer[1] <= p.dt
                                                      /\ p.dt <= luz.atardecer[1])
       IN  [puntos |-> IF filtrados = <<>> THEN puntos ELSE filtrados,
            amanecer |-> luz.amanecer, atardecer |-> luz.atardecer]

\* _filtrar_horas_luz, given what the sunrise and sunset request returns.
FiltrarHorasLuz(puntos, luz) ==
  IF luz.amanecer = SinHora \/ luz.atardecer = SinHora
  THEN [puntos |-> puntos, amanecer |-> SinHora, atardecer |-> SinHora]
  ELSE LET DeDia(p) == luz.amanecer[1] <= p.dt /\ p.dt < luz.atardecer[1]
           filtrados == SelectSeq(puntos, DeDia)
       IN  IF filtrados = <<>>
           THEN [puntos |-> puntos, amanecer |-> luz.amanecer,
                 atardecer |-> luz.atardecer]
           ELSE [puntos |-> filtrados, amanecer |-> luz.amanecer,
                 atardecer |-> luz.atardecer]

\* Mutant of AjustarPuntos: the adjustments are applied twice.
AjustarPuntosDosVeces(puntos, ajustes_playa) ==
  [i \in 1..Len(puntos) |->
     LET r == AplicarAjustes(puntos[i].altura_m, puntos[i].periodo_s, ajustes_playa)
         r2 == AplicarAjustes(r[1], r[2], ajustes_playa)
     IN  [puntos[i] EXCEPT !.altura_m = r2[1], !.periodo_s = r2[2]]]

\* for p in puntos: p.altura_m, p.periodo_s = aplicar_ajustes(...)
AjustarPuntos(puntos, ajustes_playa) ==
  [i \in 1..Len(puntos) |->
     LET r == AplicarAjustes(puntos[i].altura_m, puntos[i].periodo_s, ajustes_playa)
     IN  [puntos[i] EXCEPT !.altura_m = r[1], !.periodo_s = r[2]]]

\* A day as the provider answers for it: whether the request for the
\* observations fails, the observations, and the sunrise and sunset.
DiaDelProveedor(falla, puntos, luz) ==
  [falla |-> falla, puntos |-> puntos, luz |-> luz]

\* The steps the three reports share, on the observations fetched:
\* _filtrar_horas_luz, the adjustments, _calcular_scores.
PrepararPuntos(dia, ajustes_playa) ==
  LET f == FiltrarHorasLuz(dia.puntos, dia.luz)
  IN  [puntos |-> CalcularScores(AjustarPuntos(f.puntos, ajustes_playa)),
       amanecer |-> f.amanecer, atardecer |-> f.atardecer]

\* [x for x in s if x > 0]
Positivos(s) == SelectSeq(s, LAMBDA x : x > 0)

\* min(s) if s else 0.0
MinO0(s) == IF s = <<>> THEN 0 ELSE Minimo({s[i] : i \in 1..Len(s)})

\* max(s) if s else 0.0
MaxO0(s) == IF s = <<>> THEN 0 ELSE Maximo({s[i] : i \in 1..Len(s)})

\* sum(scores) / len(scores) if scores else 0.0
Promedio(s) == IF s = <<>> THEN 0 ELSE Suma(s) \div Len(s)

Alturas(puntos) == [i \in 1..Len(puntos) |-> puntos[i].altura_m]

Periodos(puntos) == [i \in 1..Len(puntos) |-> puntos[i].periodo_s]

Scores(puntos) == [i \in 1..Len(puntos) |-> puntos[i].score]

\* max(puntos, key=lambda p: p.score): the first of the highest score.
MejorPunto(puntos) ==
  puntos[Minimo({i \in 1..Len(puntos) :
                   \A j \in 1..Len(puntos) : puntos[j].score <= puntos[i].score})]

\* The day's ranges and mean score, as the three reports compute them.
ResumenDelDia(puntos) ==
  [h_min |-> MinO0(Positivos(Alturas(puntos))),
   h_max |-> MaxO0(Positivos(Alturas(puntos))),
   T_min |-> MinO0(Positivos(Periodos(puntos))),
   T_max |-> MaxO0(Positivos(Periodos(puntos))),
   score_prom |-> Promedio(Scores(puntos))]

\* obtener_pronostico_formateado from the windows on: the header, the
\* summary, the windows, a line per hour and the adjustments.
TextoPronostico(d, ventanas, ajustes_playa) ==
  [tipo |-> "pronostico",
   amanecer |-> d.amanecer, atardecer |-> d.atardecer,
   resumen |-> ResumenDelDia(d.puntos),
   ventanas |-> [i \in 1..Len(ventanas) |->
                   [inicio |-> ventanas[i].inicio, fin |-> ventanas[i].fin,
                    estrellas |-> ScoreAEstrellas(ventanas[i].promedio),
                    prom |-> ventanas[i].promedio]],
   horas |-> [i \in 1..Len(d.puntos) |->
                [hora |-> d.puntos[i].dt,
                 altura |-> d.puntos[i].altura_m,
                 periodo |-> d.puntos[i].periodo_s,
                 viento |-> d.puntos[i].viento_vel_kmh,
                 estrellas |-> ScoreAEstrellas(d.puntos[i].score)]],
   ajustes |-> ajustes_playa]

\* obtener_pronostico_formateado
InformePronostico(dia, ajustes_playa) ==
  IF dia.falla THEN [tipo |-> "error"]
  ELSE IF dia.puntos = <<>> THEN [tipo |-> "vacio"]
  ELSE LET d == PrepararPuntos(dia, ajustes_playa)
       IN  TextoPronostico(d, AgruparMejoresVentanas(d.puntos, Decimal(65, 1), 3),
                           ajustes_playa)

\* puntos_ventana = [p for p in puntos if inicio <= p.dt <= fin]
PuntosVentana(puntos, inicio, fin) ==
  SelectSeq(puntos, LAMBDA p : inicio <= p.dt /\ p.dt <= fin)

\* _mejor_horario_en_dia from the windows on: the first window with its own
\* ranges, or the best hour when there is no window.
TextoMejorHorario(d, ventanas) ==
  LET r == ResumenDelDia(d.puntos)
  IN  IF ventanas # <<>>
      THEN LET v == ventanas[1]
               puntos_ventana == PuntosVentana(d.puntos, v.inicio, v.fin)
               hay == puntos_ventana # <<>>
           IN  [tipo |-> "mejor_horario",
                amanecer |-> d.amanecer, atardecer |-> d.atardecer,
                resumen |-> r,
                ventana |->
                  <<[inicio |-> v.inicio, fin |-> v.fin, prom |-> v.promedio,
                     estrellas |-> ScoreAEstrellas(v.promedio),
                     h_min_v |-> IF hay THEN MinO0(Alturas(puntos_ventana))
                                 ELSE r.h_min,
                     h_max_v |-> IF hay THEN MaxO0(Alturas(puntos_ventana))
                                 ELSE r.h_max,
                     T_min_v |-> IF hay THEN MinO0(Periodos(puntos_ventana))
                                 ELSE r.T_min,
                     T_max_v |-> IF hay THEN MaxO0(Periodos(puntos_ventana))
                                 ELSE r.T_max]>>,
                mejor |-> <<>>]
      ELSE LET mejor == MejorPunto(d.puntos)
           IN  [tipo |-> "mejor_horario",
                amanecer |-> d.amanecer, atardecer |-> d.atardecer,
                resumen |-> r,
                ventana |-> <<>>,
                mejor |-> <<[hora |-> mejor.dt, altura |-> mejor.altura_m,
                             periodo |-> mejor.periodo_s,
                             viento |-> mejor.viento_vel_kmh,
                             estrellas |-> ScoreAEstrellas(mejor.score),
                             score |-> mejor.score]>>]

\* _mejor_horario_en_dia
InformeMejorHorario(dia, ajustes_playa) ==
  IF dia.falla THEN [tipo |-> "error"]
  ELSE IF dia.puntos = <<>> THEN [tipo |-> "vacio"]
  ELSE LET d == PrepararPuntos(dia, ajustes_playa)
       IN  TextoMejorHorario(d, AgruparMejoresVentanas(d.puntos, Decimal(65, 1), 3))

\* The registro of the date f, of its points scored and their windows:
\* nothing when there is no score.
RegistroDe(f, puntos, ventanas) ==
  IF Scores(puntos) = <<>> THEN <<>>
  ELSE <<[fecha |-> f, puntos |-> puntos,
          score_prom |-> Promedio(Scores(puntos)),
          score_max |-> MaxO0(Scores(puntos)),
          ventanas |-> ventanas]>>

\* The body of the for loop of _mejor_dia_semana for the date f: the
\* registro appended, or nothing when the day is skipped.
RegistroDelDia(f, dia, ajustes_playa) ==
  IF dia.falla THEN <<>>
  ELSE IF dia.puntos = <<>> THEN <<>>
  ELSE LET d == PrepararPuntos(dia, ajustes_playa)
       IN  RegistroDe(f, d.puntos,
                      AgruparMejoresVentanas(d.puntos, Decimal(65, 1), 3))

\* for offset in range(dias), from offset on; proveedor[offset + 1] is the
\* provider's answer for the date hoy + offset.
RECURSIVE Registros(_, _, _, _, _)
Registros(proveedor, fecha_hoy, dias, ajustes_playa, offset) ==
  IF offset >= dias THEN <<>>
  ELSE RegistroDelDia(SumarDias(fecha_hoy, offset), proveedor[offset + 1],
                      ajustes_playa)
         \o Registros(proveedor, fecha_hoy, dias, ajustes_playa, offset + 1)

\* Mutant of MejorRegistro: the day of the highest mean score.
MejorRegistroPorPromedio(registros) ==
  registros[Minimo({i \in 1..Len(registros) :
                      \A j \in 1..Len(registros) :
                        registros[j].score_prom <= registros[i].score_prom})]

\* max(registros, key=lambda r: r["score_max"]): the first of the highest
\* score_max.
MejorRegistro(registros) ==
  registros[Minimo({i \in 1..Len(registros) :
                      \A j \in 1..Len(registros) :
                        registros[j].score_max <= registros[i].score_max})]

\* _mejor_dia_semana after the loop.  pedidos are the dates asked of the
\* provider.
TextoMejorDia(registros, fecha_hoy, dias) ==
  LET pedidos == [o \in 1..dias |-> SumarDias(fecha_hoy, o - 1)]
  IN  IF registros = <<>>
      THEN [tipo |-> "no_pude_estimar", dias |-> dias, pedidos |-> pedidos]
      ELSE LET mejor_dia == MejorRegistro(registros)
               mejor == MejorPunto(mejor_dia.puntos)
           IN  [tipo |-> "mejor_dia", dias |-> dias, pedidos |-> pedidos,
                fecha |-> mejor_dia.fecha,
                score_prom |-> mejor_dia.score_prom,
                score_max |-> mejor_dia.score_max,
                resumen |-> ResumenDelDia(mejor_dia.puntos),
                ventana |-> IF mejor_dia.ventanas # <<>>
                            THEN <<[inicio |-> mejor_dia.ventanas[1].inicio,
                                    fin |-> mejor_dia.ventanas[1].fin,
                                    prom |-> mejor_dia.ventanas[1].promedio]>>
                            ELSE <<>>,
                mejor |-> IF mejor_dia.ventanas # <<>> THEN <<>>
                          ELSE <<[hora |-> mejor.dt, altura |-> mejor.altura_m,
                                  periodo |-> mejor.periodo_s,
                                  viento |-> mejor.viento_vel_kmh]>>,
                tendencia |-> [i \in 1..Len(registros) |->
                                 [fecha |-> registros[i].fecha,
                                  score_prom |-> registros[i].score_prom]]]

\* _mejor_dia_semana
InformeMejorDia(proveedor, fecha_hoy, dias, ajustes_playa) ==
  TextoMejorDia(Registros(proveedor, fecha_hoy, dias, ajustes_playa, 0),
                fecha_hoy, dias)

\* Hours fetched for a day, at most.
MaxHoras == 3

\* Days asked of the report of the best day, below the seven of the program.
MaxDias == 3

\* Observations at the hour dt: 1.2 m and 14 s (score 80), 1.2 m and 10 s
\* (67.2), the same with a wind of 4 km/h (87.2), and 0.6 m and 8 s (36).
PuntosALaHora(dt) ==
  { PuntoOla(dt, Decimal(12, 10), Decimal(14, 1), <<>>, 0),
    PuntoOla(dt, Decimal(12, 10), Decimal(10, 1), <<>>, 0),
    PuntoOla(dt, Decimal(12, 10), Decimal(10, 1), <<Decimal(4, 1)>>, 0),
    PuntoOla(dt, Decimal(6, 10), Decimal(8, 1), <<>>, 0) }

\* Hourly series from 06:00.
SeriesDelDia ==
  UNION {{s \in [1..n -> UNION {PuntosALaHora(5 + i) : i \in 1..n}] :
            \A i \in 1..n : s[i].dt = 5 + i} : n \in 0..MaxHoras}

\* No sunrise and sunset, 07:00 to 09:00, and 20:00 to 21:00.
LucesDelDia ==
  {Luz(SinHora, SinHora), Luz(<<7>>, <<9>>), Luz(<<20>>, <<21>>)}

DiasDelProveedor ==
  {DiaDelProveedor(TRUE, <<>>, Luz(SinHora, SinHora))}
    \cup {DiaDelProveedor(FALSE, s, l) : s \in SeriesDelDia, l \in LucesDelDia}

\* The adjustments of the beach: none, a height delta, and a height delta
\* with a period factor that leave no hour above the threshold.
AjustesDePlaya ==
  { <<>>,
    [delta_altura |-> Decimal(2, 10)],
    [delta_altura |-> Decimal(-6, 10), factor_periodo |-> Decimal(5, 10)] }

\* The days of the report of the best day: a failed request, no data, a day
\* with a peak of 80 and a mean of 50.7, an even day of 67.2, and a day of
\* which only the hour of 80 is in daylight.
DiasDeSemana ==
  LET dt(i) == 5 + i
      alto(i) == PuntoOla(dt(i), Decimal(12, 10), Decimal(14, 1), <<>>, 0)
      medio(i) == PuntoOla(dt(i), Decimal(12, 10), Decimal(10, 1), <<>>, 0)
      bajo(i) == PuntoOla(dt(i), Decimal(6, 10), Decimal(8, 1), <<>>, 0)
  IN  { DiaDelProveedor(TRUE, <<>>, Luz(SinHora, SinHora)),
        DiaDelProveedor(FALSE, <<>>, Luz(SinHora, SinHora)),
        DiaDelProveedor(FALSE, <<alto(1), bajo(2), bajo(3)>>, Luz(SinHora, SinHora)),
        DiaDelProveedor(FALSE, <<medio(1), medio(2)>>, Luz(SinHora, SinHora)),
        DiaDelProveedor(FALSE, <<bajo(1), alto(2)>>, Luz(<<7>>, <<9>>)) }

\* The provider over n days: any days when n is small, and for the seven
\* days of the program those that change at most MaxCambios times.
Semanas ==
  UNION {[1..n -> DiasDeSemana] : n \in 1..MaxDias}
    \cup {s \in [1..Dias -> DiasDeSemana] :
            Cardinality({i \in 1..(Dias - 1) : s[i] # s[i + 1]}) <= MaxCambios}

InitInformes ==
  /\ InitDialogo
  /\ SinUsuarios
  /\ SinAjustes
  /\ argumentos \in
       {[informe |-> i, proveedor |-> <<d>>, hoy |-> Fecha(2024, 2, 28),
         dias |-> 1, ajustes |-> a] :
          i \in {"pronostico", "mejor_horario"}, d \in DiasDelProveedor,
          a \in AjustesDePlaya}
       \cup
       {[informe |-> "mejor_dia", proveedor |-> s, hoy |-> Fecha(2024, 2, 28),
         dias |-> Len(s), ajustes |-> a] :
          s \in Semanas, a \in AjustesDePlaya}
  /\ valor = Pendiente

LlamarInformePronostico ==
  /\ valor = Pendiente
  /\ argumentos.informe = "pronostico"
  /\ valor' = <<InformePronostico(argumentos.proveedor[1], argumentos.ajustes)>>
  /\ UNCHANGED <<argumentos, dialogo, usuarios, ajustes>>

LlamarInformeMejorHorario ==
  /\ valor = Pendiente
  /\ argumentos.informe = "mejor_horario"
  /\ valor' = <<InformeMejorHorario(argumentos.proveedor[1], argumentos.ajustes)>>
  /\ UNCHANGED <<argumentos, dialogo, usuarios, ajustes>>

LlamarInformeMejorDia ==
  /\ valor = Pendiente
  /\ argumentos.informe = "mejor_dia"
  /\ valor' = <<InformeMejorDia(argumentos.proveedor, argumentos.hoy,
                                argumentos.dias, argumentos.ajustes)>>
  /\ UNCHANGED <<argumentos, dialogo, usuarios, ajustes>>

NextInformes ==
  \/ LlamarInformePronostico
  \/ LlamarInformeMejorHorario
  \/ LlamarInformeMejorDia

SpecInformes == InitInformes /\ [][NextInformes]_vars

\* The days of the call, by position, that yield data: the request does not
\* fail and the observations are not empty.
DiasConDatos ==
  {o \in 1..argumentos.dias :
     ~argumentos.proveedor[o].falla /\ argumentos.proveedor[o].puntos # <<>>}

\* The highest hourly score of the day at position o.
PicoDelDia(o) ==
  MaxO0(Scores(PrepararPuntos(argumentos.proveedor[o], argumentos.ajustes).puntos))

C22_TestigoSinDatos ==
  /\ valor # Pendiente
  /\ argumentos.informe = "mejor_dia"
  /\ argumentos.dias = Dias
  /\ DiasConDatos = {}
  /\ \E o \in 1..Dias : argumentos.proveedor[o].falla
  /\ \E o \in 1..Dias : ~argumentos.proveedor[o].falla
  /\ Devuelto.tipo = "no_pude_estimar"

(***************************************************************************)
(* _obtener_datos_olas_reales (pronostico_api.py) given what the two      *)
(* requests answer.  A value that may be None is the empty sequence or    *)
(* the one-element sequence of the value.  The direction lists are left   *)
(* out: they are taken to be as long as the time list.                    *)
(***************************************************************************)
\* What _pedir_marine does: it raises, or returns its lists.
Marine(falla, tiempos, alturas, periodos, viento_vel) ==
  [falla |-> falla, tiempos |-> tiempos, alturas |-> alturas,
   periodos |-> periodos, viento_vel |-> viento_vel]

\* What _pedir_forecast_viento does: it raises, or returns its lists.
Forecast(falla, tiempos, viento_vel) ==
  [falla |-> falla, tiempos |-> tiempos, viento_vel |-> viento_vel]

\* float(x) if x is not None else 0.0
FloatO0(x) == IF x = <<>> THEN 0 ELSE x[1]

\* What the call does: it raises, or returns the points; pedidos are the
\* requests made.
Obtenido(excepcion, puntos, pedidos) ==
  [excepcion |-> excepcion, puntos |-> puntos, pedidos |-> pedidos]

\* The points from the request for the wind on: the fallback when the marine
\* lists have no wind, and the zip of the lists.
ArmarPuntos(marine, forecast, viento_falla) ==
  LET n == Min2(Len(marine.tiempos), Min2(Len(marine.alturas), Len(marine.periodos)))
      tiempos == Primeras(marine.tiempos, n)
      alturas == Primeras(marine.alturas, n)
      periodos == Primeras(marine.periodos, n)
      viento_vel == Primeras(marine.viento_vel, n)
      tiene_viento_marine == \E i \in 1..Len(viento_vel) : viento_vel[i] # <<>>
      pide == ~tiene_viento_marine /\ tiempos # <<>>
      m == Min2(Len(tiempos), Min2(Len(forecast.tiempos), Len(forecast.viento_vel)))
      usa == pide /\ ~forecast.falla /\ m > 0
      tiempos2 == IF usa THEN Primeras(tiempos, m) ELSE tiempos
      alturas2 == IF usa THEN Primeras(alturas, m) ELSE alturas
      periodos2 == IF usa THEN Primeras(periodos, m) ELSE periodos
      viento2 == IF usa THEN Primeras(forecast.viento_vel, m)
                 ELSE IF pide /\ forecast.falla
                 THEN [i \in 1..Len(tiempos) |-> <<>>]
                 ELSE viento_vel
      k == Min2(Min2(Len(tiempos2), Len(alturas2)),
                Min2(Len(periodos2), Len(viento2)))
      pedidos == IF pide THEN <<"marine", "forecast">> ELSE <<"marine">>
  IN  IF pide /\ forecast.falla /\ viento_falla
      THEN Obtenido(TRUE, <<>>, pedidos)
      ELSE Obtenido(FALSE,
                    [i \in 1..k |->
                       PuntoOla(tiempos2[i], FloatO0(alturas2[i]),
                                FloatO0(periodos2[i]), viento2[i], 0)],
                    pedidos)

\* Mutant of ObtenerDatosOlasReales: the failure of the request for the wind
\* is not caught.
ObtenerDatosSinCapturar(marine, forecast) ==
  IF marine.falla THEN Obtenido(TRUE, <<>>, <<"marine">>)
  ELSE ArmarPuntos(marine, forecast, TRUE)

\* _obtener_datos_olas_reales: _pedir_marine is called outside any try;
\* _pedir_forecast_viento inside one whose except leaves the wind unknown.
ObtenerDatosOlasReales(marine, forecast) ==
  IF marine.falla THEN Obtenido(TRUE, <<>>, <<"marine">>)
  ELSE ArmarPuntos(marine, forecast, FALSE)

\* The hours 6, 7, ... of n answers.
HorasDesdeLas6(n) == [i \in 1..n |-> 5 + i]

\* The marine source fails, or answers for 0..MaxHoras hours: heights all
\* known, the first unknown, or one missing; wind missing, unknown, or known.
RespuestasMarine ==
  {Marine(TRUE, <<>>, <<>>, <<>>, <<>>)}
    \cup UNION {
      {Marine(FALSE, HorasDesdeLas6(n), a, [i \in 1..n |-> <<Decimal(10, 1)>>], v) :
         a \in { [i \in 1..n |-> <<Decimal(12, 10)>>],
                 [i \in 1..n |-> IF i = 1 THEN <<>> ELSE <<Decimal(12, 10)>>],
                 [i \in 1..(n - 1) |-> <<Decimal(12, 10)>>] },
         v \in { <<>>, [i \in 1..n |-> <<>>], [i \in 1..n |-> <<Decimal(4, 1)>>] }} :
      n \in 1..MaxHoras}
    \cup {Marine(FALSE, <<>>, <<>>, <<>>, <<>>)}

\* The general source fails, or answers the wind of 0..MaxHoras hours.
RespuestasForecast ==
  {Forecast(TRUE, <<>>, <<>>)}
    \cup {Forecast(FALSE, HorasDesdeLas6(m), [i \in 1..m |-> <<Decimal(12, 1)>>]) :
            m \in 0..MaxHoras}

InitObtener ==
  /\ InitDialogo
  /\ SinUsuarios
  /\ SinAjustes
  /\ argumentos \in {[marine |-> a, forecast |-> b] :
                       a \in RespuestasMarine, b \in RespuestasForecast}
  /\ valor = Pendiente

LlamarObtenerDatosOlasReales ==
  /\ valor = Pendiente
  /\ valor' = <<ObtenerDatosOlasReales(argumentos.marine, argumentos.forecast)>>
  /\ UNCHANGED <<argumentos, dialogo, usuarios, ajustes>>

NextObtener == LlamarObtenerDatosOlasReales

SpecObtener == InitObtener /\ [][NextObtener]_vars

\* The request named was made and failed.
FalloElPedido(nombre) ==
  /\ \E i \in 1..Len(Devuelto.pedidos) : Devuelto.pedidos[i] = nombre
  /\ IF nombre = "marine" THEN argumentos.marine.falla
     ELSE argumentos.forecast.falla

C23_TestigoMarine ==
  /\ valor # Pendiente
  /\ argumentos.marine.falla
  /\ Devuelto.excepcion

(***************************************************************************)
(* aplicar_ajustes (ajustes_spots.py) called on its own.                  *)
(***************************************************************************)
\* The dict with the key k when v is a value, and d itself when v is absent.
ConClave(d, k, v) == IF v = <<>> THEN d ELSE Put(d, k, v[1])

\* Adjustments with any of delta_altura, factor_periodo and a third key.
AjustesParaAplicar ==
  {ConClave(ConClave(ConClave(<<>>, "delta_altura", d), "factor_periodo", f),
            "nota", o) :
     d \in {<<>>} \cup {<<Decimal(k, 10)>> : k \in {-3, 0, 2}},
     f \in {<<>>} \cup {<<Decimal(k, 10)>> : k \in {0, 9, 10, 11}},
     o \in {<<>>, <<Decimal(5, 1)>>}}

InitAplicar ==
  /\ InitDialogo
  /\ SinUsuarios
  /\ SinAjustes
  /\ argumentos \in
       {[altura_base |-> h, periodo_base |-> T, ajustes |-> a] :
          h \in {Decimal(k, 10) : k \in {0, 10, 12, 25}},
          T \in {Decimal(k, 2) : k \in {0, 16, 20, 25}},
          a \in AjustesParaAplicar}
  /\ valor = Pendiente

LlamarAplicarAjustes ==
  /\ valor = Pendiente
  /\ valor' = <<AplicarAjustes(argumentos.altura_base, argumentos.periodo_base,
                               argumentos.ajustes)>>
  /\ UNCHANGED <<argumentos, dialogo, usuarios, ajustes>>

NextAplicar == LlamarAplicarAjustes

SpecAplicar == InitAplicar /\ [][NextAplicar]_vars

\* C24: the height returned is the height given plus delta_altura, or the
\* height given when there is no delta_altura; the period returned is the
\* period given times factor_periodo, or the period given when there is no
\* factor_periodo; no other key changes either.  With delta_altura = 0.2
\* alone, 1.0 m and 10 s give 1.2 m and 10 s; with no adjustments both come
\* back as given.
C24_AjustesAplicados ==
  valor # Pendiente =>
    LET a == argumentos.ajustes
        h == argumentos.altura_base
        T == argumentos.periodo_base
    IN  /\ Devuelto[1] = h + (IF "delta_altura" \in DOMAIN a THEN a.delta_altura ELSE 0)
        /\ Devuelto[2] * Escala
             = T * (IF "factor_periodo" \in DOMAIN a THEN a.factor_periodo ELSE Escala)
        /\ (a = [delta_altura |-> Decimal(2, 10)] /\ h = Decimal(10, 10)
              /\ T = Decimal(10, 1)) =>
             Devuelto = <<Decimal(12, 10), Decimal(10, 1)>>
        /\ a = <<>> => Devuelto = <<h, T>>

\* delta_altura = 0.2 alone: 1.0 m and 10 s give 1.2 m and 10 s.
C24_Testigo ==
  /\ valor # Pendiente
  /\ argumentos.ajustes = [delta_altura |-> Decimal(2, 10)]
  /\ argumentos.altura_base = Decimal(10, 10)
  /\ argumentos.periodo_base = Decimal(10, 1)
  /\ Devuelto = <<Decimal(12, 10), Decimal(10, 1)>>

\* A third key beside the two: the result is that of the two.
C24_TestigoOtraClave ==
  /\ valor # Pendiente
  /\ DOMAIN argumentos.ajustes = {"delta_altura", "factor_periodo", "nota"}
  /\ argumentos.ajustes.factor_periodo = Decimal(11, 10)
  /\ argumentos.ajustes.delta_altura = Decimal(-3, 10)
  /\ argumentos.altura_base = Decimal(12, 10)
  /\ argumentos.periodo_base = Decimal(10, 1)
  /\ Devuelto = <<Decimal(9, 10), Decimal(11, 1)>>

(***************************************************************************)
(* The adjustment store in use, one operation at a time: the command      *)
(* /ajuste of bot_telegram.py, which runs actualizar_ajuste_param, and    *)
(* cargar_ajustes_para (ajustes_spots.py).  historia.antes is the file    *)
(* before the last operation, argumentos the operation and valor what it  *)
(* gave.                                                                   *)
(***************************************************************************)
\* What json.load returns for a file that holds a list: told from every
\* mapping by a key that is no text.
ListaJson == Put(<<>>, <<"[]">>, <<>>)

\* A number where an object of adjustments is expected.
NumeroJson == [json |-> "numero"]

\* What json.load returned is a dict.
EsDict(datos) == datos # ListaJson

\* The value of a key is a dict.
EsObjeto(x) == x # NumeroJson

\* A call that raised e.
Lanzado(e) == [excepcion |-> e, valor |-> <<>>]

\* A call that returned v.
Regresado(v) == [excepcion |-> None, valor |-> v]

\* cargar_ajustes_para: datos.get(key, {}) has no get when datos is a list.
CargarAjustesPara(a, spot_key, playa_key) ==
  LET datos == CargarTodo(a)
  IN  IF ~EsDict(datos) THEN Lanzado("AttributeError")
      ELSE Regresado(Get(datos, Clave(spot_key, playa_key), <<>>))

\* actualizar_ajuste_param with no other run at the same time: the file it
\* leaves and the exception it raises, if any.  datos[key] = {} raises on a
\* list, datos[key][param] = valor on a number, both before the file is
\* opened.
ActualizarAjusteParam(a, spot_key, playa_key, param, v) ==
  LET datos == CargarTodo(a)
      key == Clave(spot_key, playa_key)
  IN  IF ~EsDict(datos) THEN [archivo |-> a, excepcion |-> "TypeError"]
      ELSE IF key \in DOMAIN datos /\ ~EsObjeto(datos[key])
      THEN [archivo |-> a, excepcion |-> "TypeError"]
      ELSE [archivo |-> ArchivoCon(AsignarParam(datos, key, param, v)),
            excepcion |-> None]

\* float(texto) of a text of an optional sign, digits and at most one point,
\* with a digit: the one-element sequence of the number.  The empty
\* sequence, for ValueError, of any other text without a letter of "nan",
\* "inf" or an exponent and without "_".
Float(texto) ==
  LET signo == texto # <<>> /\ texto[1] \in {"-", "+"}
      cuerpo == IF signo THEN Tail(texto) ELSE texto
      n == Len(cuerpo)
      puntos == {i \in 1..n : cuerpo[i] = "."}
      cifras == {i \in 1..n : EsDecimal(cuerpo[i])}
      p == IF puntos = {} THEN n + 1 ELSE CHOOSE i \in puntos : TRUE
      RECURSIVE Parte(_)
      Parte(i) ==
        IF i > n THEN 0
        ELSE IF i < p
        THEN ValorDigito(cuerpo[i]) * Escala * (10 ^ (p - 1 - i)) + Parte(i + 1)
        ELSE IF i = p THEN Parte(i + 1)
        ELSE (ValorDigito(cuerpo[i]) * Escala) \div (10 ^ (i - p)) + Parte(i + 1)
  IN  IF cifras = {} \/ Cardinality(puntos) > 1
         \/ cifras \cup puntos # 1..n
      THEN <<>>
      ELSE <<(IF signo /\ texto[1] = "-" THEN -1 ELSE 1) * Parte(1)>>

\* context.args: the number of tokens and, of four tokens, each by its
\* place.
Args(n, spot, playa, param, valor_str) ==
  [n |-> n, spot |-> spot, playa |-> playa, param |-> param,
   valor_str |-> valor_str]

\* Mutant of ComandoAjuste: a value that is not a number is written as 0.
ComandoAjusteSinValidar(a, args) ==
  IF args.n # 4 THEN [archivo |-> a, respuesta |-> "uso"]
  ELSE LET valor_f == Float(args.valor_str)
           r == ActualizarAjusteParam(a, args.spot, args.playa, args.param,
                                      IF valor_f = <<>> THEN 0 ELSE valor_f[1])
       IN  IF r.excepcion = None
           THEN [archivo |-> r.archivo, respuesta |-> "ajuste_aplicado"]
           ELSE [archivo |-> r.archivo, respuesta |-> "error_al_aplicar"]

\* comando_ajuste: the file it leaves and the reply it sends.
ComandoAjuste(a, args) ==
  IF args.n # 4 THEN [archivo |-> a, respuesta |-> "uso"]
  ELSE LET valor_f == Float(args.valor_str)
       IN  IF valor_f = <<>>
           THEN [archivo |-> a, respuesta |-> "valor_no_numerico"]
           ELSE LET r == ActualizarAjusteParam(a, args.spot, args.playa,
                                               args.param, valor_f[1])
                IN  IF r.excepcion = None
                    THEN [archivo |-> r.archivo, respuesta |-> "ajuste_aplicado"]
                    ELSE [archivo |-> r.archivo, respuesta |-> "error_al_aplicar"]

\* Two beaches of the catalog.
ParesDelCatalogo ==
  { <<Spot("miramar").clave, Playas("miramar")[1].clave>>,
    <<Spot("quequen").clave, Playas("quequen")[1].clave>> }

\* Tokens that are no keys of the catalog; the two pairs have the same key.
ParesAjenos ==
  { << <<"a", "/", "b">>, <<"c">> >>, << <<"a">>, <<"b", "/", "c">> >> }

ParesDeAjuste == ParesDelCatalogo \cup ParesAjenos

\* "0.3" and "-2".
TextosNumericos == { <<"0", ".", "3">>, <<"-", "2">> }

\* "abc", "0,3" and "1.2.3".
TextosNoNumericos ==
  { <<"a", "b", "c">>, <<"0", ",", "3">>, <<"1", ".", "2", ".", "3">> }

\* The commands: four tokens with any pair, parameter and number, four
\* tokens with a value that is no number, and three and five tokens.
ArgsDeAjuste ==
  {Args(4, p[1], p[2], q, v) :
     p \in ParesDeAjuste, q \in ParamsAjuste, v \in TextosNumericos}
    \cup {Args(4, Spot("miramar").clave, Playas("miramar")[1].clave,
                "delta_altura", v) : v \in TextosNoNumericos}
    \cup {Args(n, <<"m">>, <<"g">>, "delta_altura", <<"0", ".", "3">>) : n \in {3, 5}}

\* The file at the start: missing, not JSON, a mapping with adjustments of
\* one beach, a JSON list, and a mapping with a number for a beach.
ArchivosDelAlmacen ==
  { ArchivoInexistente,
    ArchivoIlegible,
    ArchivoCon(AsignarParam(<<>>, ClaveDeUnica("miramar"), "factor_periodo",
                            Decimal(11, 10))),
    ArchivoCon(ListaJson),
    ArchivoCon(Put(<<>>, ClaveDeUnica("quequen"), NumeroJson)) }

InitAlmacen ==
  /\ InitDialogo
  /\ SinLlamadaPura
  /\ SinUsuarios
  /\ escritores = <<>>
  /\ archivo \in ArchivosDelAlmacen
  /\ historia = [antes |-> archivo]

EjecutarComandoAjuste(args) ==
  /\ \E r \in {ComandoAjuste(archivo, args)} :
       /\ archivo' = r.archivo
       /\ valor' = <<[respuesta |-> r.respuesta]>>
  /\ argumentos' = [op |-> "comando_ajuste", args |-> args]
  /\ historia' = [antes |-> archivo]
  /\ UNCHANGED <<escritores, dialogo, usuarios>>

LlamarCargarAjustesPara(spot_key, playa_key) ==
  /\ valor' = <<CargarAjustesPara(archivo, spot_key, playa_key)>>
  /\ argumentos' = [op |-> "cargar_ajustes_para", spot_key |-> spot_key,
                    playa_key |-> playa_key]
  /\ historia' = [antes |-> archivo]
  /\ UNCHANGED <<archivo, escritores, dialogo, usuarios>>

NextAlmacen ==
  \/ \E args \in ArgsDeAjuste : EjecutarComandoAjuste(args)
  \/ \E p \in ParesDeAjuste : LlamarCargarAjustesPara(p[1], p[2])

SpecAlmacen == InitAlmacen /\ [][NextAlmacen]_vars

\* The last operation was the command, or the read.
Hecho(op) == valor # Pendiente /\ argumentos.op = op

\* The number written for a text of TextosNumericos.
NumeroDe(texto) == IF texto = <<"-", "2">> THEN Decimal(-2, 1) ELSE Decimal(3, 10)

\* What reading the pair q gives on the file a.
Leido(a, q) == CargarAjustesPara(a, q[1], q[2])

\* C25: after the command has updated the parameter f of a pair to v, with
\* no other update running, reading that pair gives f = v and the other
\* parameters of the pair as a read before the update gave them, and reading
\* any other pair of the catalog gives what it gave before; this after each
\* update of any sequence of updates and reads.
C25_ActualizacionUnParametro ==
  (Hecho("comando_ajuste") /\ Devuelto.respuesta = "ajuste_aplicado") =>
    LET args == argumentos.args
        p == <<args.spot, args.playa>>
        ahora == Leido(archivo, p)
        antes == Leido(historia.antes, p)
    IN  /\ ahora.excepcion = None
        /\ antes.excepcion = None
        /\ DOMAIN ahora.valor = DOMAIN antes.valor \cup {args.param}
        /\ ahora.valor[args.param] = NumeroDe(args.valor_str)
        /\ \A f \in DOMAIN antes.valor \ {args.param} :
             ahora.valor[f] = antes.valor[f]
        /\ \A q \in ParesDelCatalogo \ {p} :
             Leido(archivo, q) = Leido(historia.antes, q)

\* The beach of Miramar has delta_altura -2 and factor_periodo 1.1, Quequen
\* has adjustments of its own, and delta_altura of Miramar is set to 0.3.
C25_Testigo ==
  /\ Hecho("comando_ajuste")
  /\ Devuelto.respuesta = "ajuste_aplicado"
  /\ argumentos.args.spot = Spot("miramar").clave
  /\ argumentos.args.param = "delta_altura"
  /\ historia.antes.valido
  /\ EsDict(historia.antes.datos)
  /\ Leido(historia.antes, <<argumentos.args.spot, argumentos.args.playa>>).valor
       = [delta_altura |-> Decimal(-2, 1), factor_periodo |-> Decimal(11, 10)]
  /\ Leido(archivo, <<argumentos.args.spot, argumentos.args.playa>>).valor
       = [delta_altura |-> Decimal(3, 10), factor_periodo |-> Decimal(11, 10)]
  /\ ClaveDeUnica("quequen") \in DOMAIN archivo.datos
  /\ archivo.datos[ClaveDeUnica("quequen")] = [factor_periodo |-> Decimal(-2, 1)]

\* The file is malformed: it exists and its text is not JSON, or is JSON
\* for something other than a mapping from keys to objects.
Malformado(a) ==
  /\ a.existe
  /\ \/ ~a.valido
     \/ ~EsDict(a.datos)
     \/ \E k \in DOMAIN a.datos : ~EsObjeto(a.datos[k])

\* C26 as stated: reading the adjustments of any pair from a missing file or
\* from a malformed one raises nothing and gives the empty set of
\* adjustments.
C26_LeerNuncaFalla ==
  (Hecho("cargar_ajustes_para") /\ (~archivo.existe \/ Malformado(archivo))) =>
    Devuelto = Regresado(<<>>)

\* C26, the part that holds: a missing file and a file that is not JSON are
\* read as the empty store.
C26_LeerInexistenteOIlegible ==
  (Hecho("cargar_ajustes_para") /\ (~archivo.existe \/ ~archivo.valido)) =>
    Devuelto = Regresado(<<>>)

\* The file holds a JSON list and the read raises.
C26_TestigoLista ==
  /\ Hecho("cargar_ajustes_para")
  /\ archivo = ArchivoCon(ListaJson)
  /\ Devuelto = Lanzado("AttributeError")

\* The file is not JSON and the read gives no adjustments.
C26_TestigoIlegible ==
  /\ Hecho("cargar_ajustes_para")
  /\ archivo = ArchivoIlegible
  /\ Devuelto = Regresado(<<>>)

\* C27: when the command has other than four tokens, or four with a value
\* that is not a number, the file is left as it was and the reply is the
\* usage text or the text that the value must be numeric; the file is
\* written only with four tokens and a numeric value, and what it then
\* holds is what it held with the one parameter of the one key set to the
\* value, and nothing else changed.
C27_ComandoValidado ==
  Hecho("comando_ajuste") =>
    LET args == argumentos.args
        numerico == args.valor_str \in TextosNumericos
        base == CargarTodo(historia.antes)
        datos == CargarTodo(archivo)
        key == Clave(args.spot, args.playa)
    IN  /\ args.n # 4 =>
             archivo = historia.antes /\ Devuelto.respuesta = "uso"
        /\ (args.n = 4 /\ ~numerico) =>
             archivo = historia.antes /\ Devuelto.respuesta = "valor_no_numerico"
        /\ archivo # historia.antes =>
             /\ args.n = 4 /\ numerico
             /\ Devuelto.respuesta = "ajuste_aplicado"
             /\ archivo.existe /\ archivo.valido
             /\ DOMAIN datos = DOMAIN base \cup {key}
             /\ \A k \in DOMAIN base \ {key} : datos[k] = base[k]
             /\ DOMAIN datos[key]
                  = (IF key \in DOMAIN base THEN DOMAIN base[key] ELSE {})
                      \cup {args.param}
             /\ datos[key][args.param] = NumeroDe(args.valor_str)
             /\ \A f \in DOMAIN datos[key] \ {args.param} : datos[key][f] = base[key][f]
        /\ Devuelto.respuesta = "ajuste_aplicado" =>
             /\ key \in DOMAIN datos
             /\ args.param \in DOMAIN datos[key]
             /\ datos[key][args.param] = NumeroDe(args.valor_str)

\* Four tokens with the value "0,3": the reply says that the value must be
\* numeric and the file, which held adjustments, is as it was.
C27_Testigo ==
  /\ Hecho("comando_ajuste")
  /\ argumentos.args.n = 4
  /\ argumentos.args.valor_str = <<"0", ",", "3">>
  /\ Devuelto.respuesta = "valor_no_numerico"
  /\ archivo = historia.antes
  /\ archivo.valido
  /\ ClaveDeUnica("miramar") \in DOMAIN archivo.datos

\* Three tokens: the usage text.
C27_TestigoUso ==
  /\ Hecho("comando_ajuste")
  /\ argumentos.args.n = 3
  /\ Devuelto.respuesta = "uso"
  /\ archivo = historia.antes

\* Four tokens and a number, on a file that held adjustments of two keys:
\* one parameter written.
C27_TestigoEscrito ==
  /\ Hecho("comando_ajuste")
  /\ Devuelto.respuesta = "ajuste_aplicado"
  /\ archivo # historia.antes
  /\ historia.antes.valido
  /\ Cardinality(DOMAIN historia.antes.datos) = 2
  /\ Cardinality(DOMAIN archivo.datos) = 2

\* The report of the best window has been made and recommends a window.
ConVentanaRecomendada ==
  /\ valor # Pendiente
  /\ argumentos.informe = "mejor_horario"
  /\ Devuelto.tipo = "mejor_horario"
  /\ Devuelto.ventana # <<>>

\* The points of the report: those of the day in daylight, adjusted and
\* scored.
PuntosDelInforme == PrepararPuntos(argumentos.proveedor[1], argumentos.ajustes).puntos

\* The hours of the window recommended: the consecutive points from its
\* start on with a score at or above the threshold.
HorasDeLaVentana ==
  LET puntos == PuntosDelInforme
      inicio == Devuelto.ventana[1].inicio
  IN  {i \in 1..Len(puntos) :
         /\ puntos[i].dt >= inicio
         /\ \A j \in 1..i : puntos[j].dt >= inicio => puntos[j].score >= Decimal(65, 1)}

\* The window recommended is closed by an hour below the threshold.
CerradaPorHoraBaja ==
  \E i \in 1..Len(PuntosDelInforme) :
    /\ PuntosDelInforme[i].dt = Devuelto.ventana[1].fin
    /\ PuntosDelInforme[i].score < Decimal(65, 1)

\* The ranges of the window are those of the points at the positions S.
RangosSobre(S) ==
  LET v == Devuelto.ventana[1]
      alturas == {PuntosDelInforme[i].altura_m : i \in S}
      periodos == {PuntosDelInforme[i].periodo_s : i \in S}
  IN  /\ v.h_min_v = Minimo(alturas)
      /\ v.h_max_v = Maximo(alturas)
      /\ v.T_min_v = Minimo(periodos)
      /\ v.T_max_v = Maximo(periodos)

\* C28 as stated: the height and period ranges shown for the window
\* recommended are those of the hours of the window, the consecutive hours
\* at or above the threshold, and of no other hour, whether an hour below
\* the threshold closes the window or the day ends in it.
C28_RangosDeLasHorasDeLaVentana ==
  ConVentanaRecomendada => RangosSobre(HorasDeLaVentana)

\* C28, what the report does: the ranges are those of the hours of the
\* window and, when an hour below the threshold closes it, of that hour too.
C28_RangosHastaElCierre ==
  ConVentanaRecomendada =>
    RangosSobre({i \in 1..Len(PuntosDelInforme) :
                   /\ Devuelto.ventana[1].inicio <= PuntosDelInforme[i].dt
                   /\ PuntosDelInforme[i].dt <= Devuelto.ventana[1].fin})

\* 06:00 at 1.2 m and 14 s, 07:00 at 0.6 m and 8 s: the window 06:00 to
\* 07:00 is shown with 0.6 to 1.2 m and 8 to 14 s.
C28_TestigoHoraDeCierre ==
  /\ ConVentanaRecomendada
  /\ CerradaPorHoraBaja
  /\ argumentos.ajustes = <<>>
  /\ Len(PuntosDelInforme) = 2
  /\ HorasDeLaVentana = {1}
  /\ Devuelto.ventana[1].h_min_v = Decimal(6, 10)
  /\ Devuelto.ventana[1].h_max_v = Decimal(12, 10)
  /\ Devuelto.ventana[1].T_min_v = Decimal(8, 1)
  /\ Devuelto.ventana[1].T_max_v = Decimal(14, 1)

\* The day ends in the window: the ranges are those of its hours.
C28_TestigoHastaElFinal ==
  /\ ConVentanaRecomendada
  /\ ~CerradaPorHoraBaja
  /\ Len(PuntosDelInforme) = 3
  /\ HorasDeLaVentana = {2, 3}
  /\ RangosSobre({2, 3})
  /\ ~RangosSobre({1, 2, 3})

(***************************************************************************)
(* _filtrar_horas_luz with _obtener_sunrise_sunset (pronostico_api.py),   *)
(* given what the request for the sunrise and sunset answers.             *)
(***************************************************************************)
\* The answer of the general source: the request or the parsing of its
\* text fails, or it gives the lists daily.sunrise and daily.sunset.
RespuestaDeLuz(falla, amaneceres, atardeceres) ==
  [falla |-> falla, amaneceres |-> amaneceres, atardeceres |-> atardeceres]

\* _obtener_sunrise_sunset: (None, None) on any exception and when a list is
\* missing or empty, else the first of each list.
ObtenerSunriseSunset(r) ==
  IF r.falla THEN Luz(SinHora, SinHora)
  ELSE IF r.amaneceres = <<>> \/ r.atardeceres = <<>> THEN Luz(SinHora, SinHora)
  ELSE Luz(<<r.amaneceres[1]>>, <<r.atardeceres[1]>>)

\* The answers: a failure, a list missing, and every sunrise from 05:00 to
\* 09:00 with every sunset from 05:00 to 10:00.
RespuestasDeLuz ==
  { RespuestaDeLuz(TRUE, <<>>, <<>>),
    RespuestaDeLuz(FALSE, <<>>, <<9>>),
    RespuestaDeLuz(FALSE, <<7>>, <<>>) }
    \cup {RespuestaDeLuz(FALSE, <<a>>, <<b>>) : a \in 5..9, b \in 5..10}

\* The series of a day and one that is not in the order of time.
SeriesParaFiltrar ==
  SeriesDelDia
    \cup {[i \in 1..3 |-> PuntoOla(9 - i, Decimal(12, 10), Decimal(10, 1), <<>>, 0)]}

InitLuz ==
  /\ InitDialogo
  /\ SinUsuarios
  /\ SinAjustes
  /\ argumentos \in {[puntos |-> s, respuesta |-> r] :
                       s \in SeriesParaFiltrar, r \in RespuestasDeLuz}
  /\ valor = Pendiente

LlamarFiltrarHorasLuz ==
  /\ valor = Pendiente
  /\ valor' = <<FiltrarHorasLuz(argumentos.puntos,
                                ObtenerSunriseSunset(argumentos.respuesta))>>
  /\ UNCHANGED <<argumentos, dialogo, usuarios, ajustes>>

NextLuz == LlamarFiltrarHorasLuz

SpecLuz == InitLuz /\ [][NextLuz]_vars

\* The sunrise and sunset are available.
LuzDisponible ==
  /\ ~argumentos.respuesta.falla
  /\ argumentos.respuesta.amaneceres # <<>>
  /\ argumentos.respuesta.atardeceres # <<>>

\* The positions of the observations given with sunrise <= hour < sunset.
EnHorasDeLuz ==
  {i \in 1..Len(argumentos.puntos) :
     /\ argumentos.respuesta.amaneceres[1] <= argumentos.puntos[i].dt
     /\ argumentos.puntos[i].dt < argumentos.respuesta.atardeceres[1]}

\* C29: when the sunrise and sunset are not available the observations come
\* back as given and no daylight window with them; when they are, the
\* observations that come back are those with sunrise <= hour < sunset, each
\* once and in the order given, with the sunrise and sunset, unless there is
\* none, and then all the observations come back; observations given never
\* come back as none.
C29_FiltroDeLuz ==
  valor # Pendiente =>
    LET puntos == argumentos.puntos
        r == Devuelto
        k == Cardinality(EnHorasDeLuz)
        Lugar(j) == CHOOSE i \in EnHorasDeLuz :
                      Cardinality({x \in EnHorasDeLuz : x <= i}) = j
    IN  /\ ~LuzDisponible =>
             /\ r.puntos = puntos
             /\ r.amanecer = SinHora /\ r.atardecer = SinHora
        /\ LuzDisponible =>
             /\ r.amanecer = <<argumentos.respuesta.amaneceres[1]>>
             /\ r.atardecer = <<argumentos.respuesta.atardeceres[1]>>
             /\ k = 0 => r.puntos = puntos
             /\ k > 0 => r.puntos = [j \in 1..k |-> puntos[Lugar(j)]]
        /\ puntos # <<>> => r.puntos # <<>>

\* Hours 06:00, 07:00 and 08:00 with the sun from 07:00 to 08:00: only the
\* hour of 07:00 comes back.
C29_Testigo ==
  /\ valor # Pendiente
  /\ LuzDisponible
  /\ Len(argumentos.puntos) = 3
  /\ argumentos.puntos[1].dt = 6
  /\ argumentos.respuesta.amaneceres = <<7>>
  /\ argumentos.respuesta.atardeceres = <<8>>
  /\ Devuelto.puntos = <<argumentos.puntos[2]>>
  /\ Devuelto.amanecer = <<7>>

\* No hour in daylight: all come back, with the sunrise and sunset.
C29_TestigoNinguna ==
  /\ valor # Pendiente
  /\ LuzDisponible
  /\ EnHorasDeLuz = {}
  /\ Len(argumentos.puntos) = 3
  /\ Devuelto.puntos = argumentos.puntos
  /\ Devuelto.amanecer # SinHora

\* The request fails: all come back and no sunrise.
C29_TestigoSinLuz ==
  /\ valor # Pendiente
  /\ argumentos.respuesta.falla
  /\ Len(argumentos.puntos) = 3
  /\ Devuelto.puntos = argumentos.puntos
  /\ Devuelto.amanecer = SinHora

(***************************************************************************)
(* The three reports step by step, as their bodies run: the request for   *)
(* the day's observations, _filtrar_horas_luz, the adjustments,           *)
(* _calcular_scores, _agrupar_mejores_ventanas, and the text (or, in      *)
(* _mejor_dia_semana, the registro and the next day).  valor holds the    *)
(* run: where it is, the day's offset, its local variables, the steps     *)
(* taken for the day, and the report once returned.                       *)
(***************************************************************************)
Corrida(pc, offset, puntos, amanecer, atardecer, ventanas, registros, pasos, informe) ==
  [pc |-> pc, offset |-> offset, puntos |-> puntos, amanecer |-> amanecer,
   atardecer |-> atardecer, ventanas |-> ventanas, registros |-> registros,
   pasos |-> pasos, informe |-> informe]

\* The run at the call.
CorridaInicial ==
  Corrida("inicio", 0, <<>>, SinHora, SinHora, <<>>, <<>>, <<>>, <<>>)

\* The run of the state: the one in progress, or the run at the call.
CorridaActual == IF valor = Pendiente THEN CorridaInicial ELSE valor[1]

\* The provider's answer for the day of the run e.
DiaDeLaCorrida(e) == argumentos.proveedor[e.offset + 1]

\* The run e returns the report i.
Devolver(e, i) == [e EXCEPT !.pc = "fin", !.informe = <<i>>]

\* _mejor_dia_semana at the end of the loop body: the next offset, or the
\* text after the loop.
SiguienteDia(e) ==
  IF e.offset + 1 < argumentos.dias
  THEN [e EXCEPT !.pc = "siguiente", !.offset = e.offset + 1]
  ELSE Devolver(e, TextoMejorDia(e.registros, argumentos.hoy, argumentos.dias))

\* puntos = _obtener_datos_olas_reales(lat, lon, fecha), the except and the
\* test for no data.
PasoObtener ==
  /\ CorridaActual.pc \in {"inicio", "siguiente"}
  /\ \E e \in {CorridaActual} : \E dia \in {DiaDeLaCorrida(e)} :
       valor' =
         << IF dia.falla \/ dia.puntos = <<>>
            THEN IF argumentos.informe = "mejor_dia" THEN SiguienteDia(e)
                 ELSE Devolver(e, [tipo |-> IF dia.falla THEN "error" ELSE "vacio"])
            ELSE [e EXCEPT !.pc = "obtenido", !.puntos = dia.puntos,
                           !.pasos = <<"obtener">>] >>
  /\ UNCHANGED <<argumentos, dialogo, usuarios, ajustes>>

\* puntos, amanecer, atardecer = _filtrar_horas_luz(puntos, lat, lon, fecha)
PasoFiltrar ==
  /\ CorridaActual.pc = "obtenido"
  /\ \E e \in {CorridaActual} :
       \E f \in {FiltrarHorasLuz(e.puntos, DiaDeLaCorrida(e).luz)} :
         valor' = << [e EXCEPT !.pc = "filtrado", !.puntos = f.puntos,
                               !.amanecer = f.amanecer, !.atardecer = f.atardecer,
                               !.pasos = Append(e.pasos, "filtrar")] >>
  /\ UNCHANGED <<argumentos, dialogo, usuarios, ajustes>>

\* ajustes = cargar_ajustes_para(...); for p in puntos: aplicar_ajustes
PasoAjustar ==
  /\ CorridaActual.pc = "filtrado"
  /\ \E e \in {CorridaActual} :
       valor' = << [e EXCEPT !.pc = "ajustado",
                             !.puntos = AjustarPuntos(e.puntos, argumentos.ajustes),
                             !.pasos = Append(e.pasos, "ajustar")] >>
  /\ UNCHANGED <<argumentos, dialogo, usuarios, ajustes>>

\* _calcular_scores(puntos)
PasoPuntuar ==
  /\ CorridaActual.pc = "ajustado"
  /\ \E e \in {CorridaActual} :
       valor' = << [e EXCEPT !.pc = "puntuado",
                             !.puntos = CalcularScores(e.puntos),
                             !.pasos = Append(e.pasos, "puntuar")] >>
  /\ UNCHANGED <<argumentos, dialogo, usuarios, ajustes>>

\* ventanas = _agrupar_mejores_ventanas(puntos)
PasoAgrupar ==
  /\ CorridaActual.pc = "puntuado"
  /\ \E e \in {CorridaActual} :
       valor' = << [e EXCEPT !.pc = "agrupado",
                             !.ventanas = AgruparMejoresVentanas(e.puntos,
                                            Decimal(65, 1), 3),
                             !.pasos = Append(e.pasos, "agrupar")] >>
  /\ UNCHANGED <<argumentos, dialogo, usuarios, ajustes>>

\* The lines of the report and its return; in _mejor_dia_semana,
\* registros.append and the end of the loop body.
PasoInformar ==
  /\ CorridaActual.pc = "agrupado"
  /\ \E e \in {CorridaActual} :
       valor' =
         << IF argumentos.informe = "pronostico"
            THEN Devolver(e, TextoPronostico(e, e.ventanas, argumentos.ajustes))
            ELSE IF argumentos.informe = "mejor_horario"
            THEN Devolver(e, TextoMejorHorario(e, e.ventanas))
            ELSE SiguienteDia(
                   [e EXCEPT !.registros =
                      e.registros \o RegistroDe(SumarDias(argumentos.hoy, e.offset),
                                                e.puntos, e.ventanas)]) >>
  /\ UNCHANGED <<argumentos, dialogo, usuarios, ajustes>>

NextPasos ==
  \/ PasoObtener
  \/ PasoFiltrar
  \/ PasoAjustar
  \/ PasoPuntuar
  \/ PasoAgrupar
  \/ PasoInformar

SpecPasos == InitInformes /\ [][NextPasos]_vars

\* The observation p with the adjustments of the call applied once, and
\* with its score when puntuado.
AjustadoUnaVez(p, puntuado) ==
  LET a == argumentos.ajustes
      altura == p.altura_m + (IF "delta_altura" \in DOMAIN a THEN a.delta_altura ELSE 0)
      periodo == (p.periodo_s
                    * (IF "factor_periodo" \in DOMAIN a THEN a.factor_periodo
                       ELSE Escala)) \div Escala
      q == PuntoOla(p.dt, altura, periodo, p.viento_vel_kmh, 0)
  IN  IF puntuado THEN [q EXCEPT !.score = ScorePunto(q)] ELSE q

\* The observations of the day at position o that are in daylight (all when
\* there is no daylight window or none is in it), each adjusted once, and
\* scored when puntuado.
Esperados(o, puntuado) ==
  LET dia == argumentos.proveedor[o]
      retenidos == FiltrarHorasLuz(dia.puntos, dia.luz).puntos
  IN  [i \in 1..Len(retenidos) |-> AjustadoUnaVez(retenidos[i], puntuado)]

\* The steps in the order of the three reports.
OrdenDePasos == <<"obtener", "filtrar", "ajustar", "puntuar", "agrupar">>

\* The scores the report i shows are those of the points given: the stars of
\* each hour, the stars and averages of the windows, the best hour.
ScoresDelInforme(i, puntos) ==
  LET ventanas == AgruparMejoresVentanas(puntos, Decimal(65, 1), 3)
  IN  CASE i.tipo = "pronostico" ->
             /\ Len(i.horas) = Len(puntos)
             /\ \A k \in 1..Len(puntos) :
                  /\ i.horas[k].altura = puntos[k].altura_m
                  /\ i.horas[k].periodo = puntos[k].periodo_s
                  /\ i.horas[k].estrellas = ScoreAEstrellas(puntos[k].score)
             /\ Len(i.ventanas) = Len(ventanas)
             /\ \A k \in 1..Len(ventanas) :
                  /\ i.ventanas[k].prom = ventanas[k].promedio
                  /\ i.ventanas[k].estrellas = ScoreAEstrellas(ventanas[k].promedio)
             /\ i.resumen.score_prom = Promedio(Scores(puntos))
        [] i.tipo = "mejor_horario" ->
             /\ i.resumen.score_prom = Promedio(Scores(puntos))
             /\ i.ventana # <<>> =>
                  ventanas # <<>> /\ i.ventana[1].prom = ventanas[1].promedio
             /\ i.ventana = <<>> =>
                  /\ ventanas = <<>>
                  /\ \E k \in 1..Len(puntos) :
                       /\ i.mejor[1].hora = puntos[k].dt
                       /\ i.mejor[1].score = puntos[k].score
                       /\ i.mejor[1].altura = puntos[k].altura_m
        [] i.tipo = "mejor_dia" ->
             /\ i.score_max = MaxO0(Scores(puntos))
             /\ i.score_prom = Promedio(Scores(puntos))
             /\ i.ventana # <<>> =>
                  ventanas # <<>> /\ i.ventana[1].prom = ventanas[1].promedio
             /\ i.ventana = <<>> => ventanas = <<>>
        [] OTHER -> TRUE

\* The position of the day the report of the best day recommends.
LugarDelDia(i) ==
  CHOOSE o \in 1..argumentos.dias : SumarDias(argumentos.hoy, o - 1) = i.fecha

\* C30: in the three reports the steps of a day run in the order request,
\* daylight filter, adjustments, scores, windows.  Until the scores are
\* computed every point has the score 0 it was made with; the points scored
\* are the points in daylight with the adjustments applied once, each with
\* the score of its adjusted height and period (and wind); the windows are
\* grouped from those scores; and the scores a report shows, per hour, per
\* window and per day, are those.
C30_OrdenDeLosPasos ==
  valor # Pendiente =>
    LET e == valor[1]
        o == e.offset + 1
        dia == argumentos.proveedor[o]
        retenidos == FiltrarHorasLuz(dia.puntos, dia.luz).puntos
    IN  /\ e.pc \in {"obtenido", "filtrado", "ajustado", "puntuado", "agrupado"} =>
             e.pasos = SubSeq(OrdenDePasos, 1, Len(e.pasos))
        /\ e.pc = "obtenido" => e.pasos = SubSeq(OrdenDePasos, 1, 1) /\ e.puntos = dia.puntos
        /\ e.pc = "filtrado" => e.pasos = SubSeq(OrdenDePasos, 1, 2) /\ e.puntos = retenidos
        /\ e.pc = "ajustado" =>
             e.pasos = SubSeq(OrdenDePasos, 1, 3) /\ e.puntos = Esperados(o, FALSE)
        /\ e.pc = "puntuado" =>
             e.pasos = SubSeq(OrdenDePasos, 1, 4) /\ e.puntos = Esperados(o, TRUE)
        /\ e.pc = "agrupado" =>
             /\ e.pasos = OrdenDePasos
             /\ e.puntos = Esperados(o, TRUE)
             /\ e.ventanas = AgruparMejoresVentanas(Esperados(o, TRUE), Decimal(65, 1), 3)
        /\ \A k \in 1..Len(e.registros) :
             e.registros[k].puntos
               = Esperados(LugarDelDia(e.registros[k]), TRUE)
        /\ e.pc = "fin" =>
             /\ e.informe[1].tipo \in {"pronostico", "mejor_horario"} =>
                  ScoresDelInforme(e.informe[1], Esperados(1, TRUE))
             /\ e.informe[1].tipo = "mejor_dia" =>
                  ScoresDelInforme(e.informe[1],
                                   Esperados(LugarDelDia(e.informe[1]), TRUE))
             /\ e.informe[1] =
                  (IF argumentos.informe = "pronostico"
                   THEN InformePronostico(argumentos.proveedor[1], argumentos.ajustes)
                   ELSE IF argumentos.informe = "mejor_horario"
                   THEN InformeMejorHorario(argumentos.proveedor[1], argumentos.ajustes)
                   ELSE InformeMejorDia(argumentos.proveedor, argumentos.hoy,
                                        argumentos.dias, argumentos.ajustes))

\* The full-day report returned for three hours of which two are in
\* daylight, with a height delta of -0.6 and a period factor of 0.5: two
\* lines, the first of 0.6 m and 7 s with the stars of that score, fewer
\* than those of the 1.2 m and 14 s the provider gave.
C30_Testigo ==
  /\ valor # Pendiente
  /\ valor[1].pc = "fin"
  /\ argumentos.informe = "pronostico"
  /\ argumentos.ajustes
       = [delta_altura |-> Decimal(-6, 10), factor_periodo |-> Decimal(5, 10)]
  /\ Len(argumentos.proveedor[1].puntos) = 3
  /\ argumentos.proveedor[1].puntos[2].periodo_s = Decimal(14, 1)
  /\ argumentos.proveedor[1].luz = Luz(<<7>>, <<9>>)
  /\ valor[1].pasos = OrdenDePasos
  /\ valor[1].informe[1].tipo = "pronostico"
  /\ Len(valor[1].informe[1].horas) = 2
  /\ valor[1].informe[1].horas[1].altura = Decimal(6, 10)
  /\ valor[1].informe[1].horas[1].periodo = Decimal(7, 1)
  /\ valor[1].informe[1].horas[1].estrellas
       = ScoreAEstrellas(ScorePunto(PuntoOla(7, Decimal(6, 10), Decimal(7, 1), <<>>, 0)))
  /\ valor[1].informe[1].horas[1].estrellas
       # ScoreAEstrellas(ScorePunto(PuntoOla(7, Decimal(12, 10), Decimal(14, 1), <<>>, 0)))

\* The report of the best day at the scores of its third day, with two
\* registros made and adjustments that change every score.
C30_TestigoMejorDia ==
  /\ valor # Pendiente
  /\ valor[1].pc = "puntuado"
  /\ argumentos.informe = "mejor_dia"
  /\ valor[1].offset = 2
  /\ Len(valor[1].registros) = 2
  /\ DOMAIN argumentos.ajustes = {"delta_altura", "factor_periodo"}
  /\ \A k \in 1..Len(valor[1].puntos) : valor[1].puntos[k].score > 0

(***************************************************************************)
(* An observation from the provider to its score: /ajuste commands store  *)
(* a height delta and a period factor for the beach (bot_telegram.py,     *)
(* ajustes_spots.py), _obtener_datos_olas_reales makes the points, the    *)
(* report applies the stored adjustments and scores them                  *)
(* (pronostico_api.py).  valor holds the report's position and points.    *)
(***************************************************************************)
\* The beach of the report.
PlayaDelCiclo == <<Spot("miramar").clave, Playas("miramar")[1].clave>>

\* /ajuste <spot> <playa> <param> <valor> for the beach of the report, with
\* a text float() accepts, before the report is asked for.
CicloComandoAjuste(param, valor_str) ==
  /\ valor = Pendiente
  /\ \E r \in {ComandoAjuste(archivo, Args(4, PlayaDelCiclo[1], PlayaDelCiclo[2],
                                           param, valor_str))} :
       archivo' = r.archivo
  /\ historia' = [antes |-> archivo]
  /\ UNCHANGED <<escritores, puras, dialogo, usuarios>>

\* puntos = _obtener_datos_olas_reales(lat, lon, fecha), and the except of
\* the report.
CicloCrear ==
  /\ valor = Pendiente
  /\ \E r \in {ObtenerDatosOlasReales(argumentos.marine, argumentos.forecast)} :
       valor' = << IF r.excepcion THEN [pc |-> "error", puntos |-> <<>>]
                   ELSE [pc |-> "creado", puntos |-> r.puntos] >>
  /\ UNCHANGED <<argumentos, dialogo, usuarios, ajustes>>

\* ajustes = cargar_ajustes_para(spot_key, playa_key); for p in puntos:
\* p.altura_m, p.periodo_s = aplicar_ajustes(p.altura_m, p.periodo_s, ajustes)
CicloAjustar ==
  /\ valor # Pendiente
  /\ valor[1].pc = "creado"
  /\ \E a \in {CargarAjustesPara(archivo, PlayaDelCiclo[1], PlayaDelCiclo[2])} :
       valor' = << IF a.excepcion # None THEN [pc |-> "error", puntos |-> <<>>]
                   ELSE [pc |-> "ajustado",
                         puntos |-> AjustarPuntos(valor[1].puntos, a.valor)] >>
  /\ UNCHANGED <<argumentos, dialogo, usuarios, ajustes>>

\* _calcular_scores(puntos)
CicloPuntuar ==
  /\ valor # Pendiente
  /\ valor[1].pc = "ajustado"
  /\ valor' = <<[pc |-> "puntuado", puntos |-> CalcularScores(valor[1].puntos)]>>
  /\ UNCHANGED <<argumentos, dialogo, usuarios, ajustes>>

InitCiclo ==
  /\ InitDialogo
  /\ SinUsuarios
  /\ escritores = <<>>
  /\ archivo = ArchivoInexistente
  /\ historia = [antes |-> archivo]
  /\ argumentos \in {[marine |-> a, forecast |-> b] :
                       a \in RespuestasMarine, b \in RespuestasForecast}
  /\ valor = Pendiente

NextCiclo ==
  \/ \E q \in ParamsAjuste, v \in TextosNumericos : CicloComandoAjuste(q, v)
  \/ CicloCrear
  \/ CicloAjustar
  \/ CicloPuntuar

SpecCiclo == InitCiclo /\ [][NextCiclo]_vars

\* The report is at the position pc.
EnElCiclo(pc) == valor # Pendiente /\ valor[1].pc = pc

\* No point has a height or a period below 0.
SinNegativos(puntos) ==
  \A i \in 1..Len(puntos) : puntos[i].altura_m >= 0 /\ puntos[i].periodo_s >= 0

\* C31 as stated: the height and the period of every observation are >= 0
\* when the provider has made it (a missing value being 0.0), after the
\* stored height delta and period factor have been applied, whatever they
\* are, and after its score is computed.
C31_AlturaYPeriodoNoNegativos ==
  valor # Pendiente => SinNegativos(valor[1].puntos)

\* What holds of C31: the observations the provider makes from heights and
\* periods that are missing or >= 0 have none below 0, a missing one being
\* 0; adjusted, they have the height plus the stored delta and the period
\* times the stored factor, of either sign; and the score of a point whose
\* height or period is <= 0 is 0.
C31_NoNegativosAlCrear ==
  /\ EnElCiclo("creado") =>
       /\ SinNegativos(valor[1].puntos)
       /\ \A i \in 1..Len(valor[1].puntos) :
            argumentos.marine.alturas[i] = <<>> => valor[1].puntos[i].altura_m = 0
  /\ EnElCiclo("puntuado") =>
       \A i \in 1..Len(valor[1].puntos) :
         (valor[1].puntos[i].altura_m <= 0 \/ valor[1].puntos[i].periodo_s <= 0)
           => valor[1].puntos[i].score = 0

\* An observation made with the height missing.
C31_TestigoCreado ==
  /\ EnElCiclo("creado")
  /\ Len(valor[1].puntos) = 3
  /\ argumentos.marine.alturas[1] = <<>>
  /\ valor[1].puntos[1].altura_m = 0

\* After /ajuste ... delta_altura -2, the 1.2 m of the provider are -0.8 m
\* when scored, with the score 0.
C31_TestigoNegativo ==
  /\ EnElCiclo("puntuado")
  /\ Leido(archivo, PlayaDelCiclo).valor = [delta_altura |-> Decimal(-2, 1)]
  /\ Len(valor[1].puntos) > 0
  /\ valor[1].puntos[1].altura_m = Decimal(-8, 10)
  /\ valor[1].puntos[1].score = 0

\* The marine answer has k hours of time, height and period and no wind
\* value: the wind list is missing, empty, or None at every hour.
MarineSinViento(k) ==
  /\ ~argumentos.marine.falla
  /\ Len(argumentos.marine.tiempos) = k
  /\ Len(argumentos.marine.alturas) = k
  /\ Len(argumentos.marine.periodos) = k
  /\ \A i \in 1..Len(argumentos.marine.viento_vel) :
       argumentos.marine.viento_vel[i] = <<>>

\* The general source gives no wind value: the request fails or its list is
\* empty.
ForecastSinViento ==
  argumentos.forecast.falla \/ argumentos.forecast.viento_vel = <<>>

\* The call returned k observations, one for each hour of the marine answer,
\* none with wind, with 0 for a height or a period that is missing.
DevueltosSinViento(k) ==
  /\ ~Devuelto.excepcion
  /\ Devuelto.puntos =
       [i \in 1..k |->
          PuntoOla(argumentos.marine.tiempos[i],
                   FloatO0(argumentos.marine.alturas[i]),
                   FloatO0(argumentos.marine.periodos[i]), <<>>, 0)]

\* C32 as stated: whenever the marine source answers k hours with no wind
\* value (wind list missing, empty, or all None) and the general source
\* gives none either (empty list or failed request), the call returns k
\* observations, each with the wind unknown and with 0.0 for a missing
\* height or period.
C32_SinVientoNoQuitaObservaciones ==
  valor # Pendiente =>
    \A k \in 0..MaxHoras :
      (MarineSinViento(k) /\ ForecastSinViento) => DevueltosSinViento(k)

\* What holds of C32: the k observations come back when the request for the
\* wind fails, or when the marine wind list has a None for each hour; when
\* the marine wind list is missing or empty and the general source answers
\* an empty list, the zip over the empty wind list makes no observation.
C32_SinVientoSegunLaLista ==
  valor # Pendiente =>
    \A k \in 1..MaxHoras :
      (MarineSinViento(k) /\ ForecastSinViento) =>
        IF argumentos.forecast.falla \/ Len(argumentos.marine.viento_vel) >= k
        THEN DevueltosSinViento(k)
        ELSE ~Devuelto.excepcion /\ Devuelto.puntos = <<>>

\* Three hours from the marine source without a wind list, an empty answer
\* from the general source: no observation is returned.
C32_TestigoSinObservaciones ==
  /\ valor # Pendiente
  /\ MarineSinViento(3)
  /\ argumentos.marine.viento_vel = <<>>
  /\ ~argumentos.forecast.falla
  /\ argumentos.forecast.viento_vel = <<>>
  /\ Devuelto.pedidos = <<"marine", "forecast">>
  /\ Devuelto.puntos = <<>>

\* Three hours from the marine source with None for the wind of each, an
\* empty answer from the general source: three observations without wind,
\* the first of height 0.
C32_TestigoConNones ==
  /\ valor # Pendiente
  /\ MarineSinViento(3)
  /\ Len(argumentos.marine.viento_vel) = 3
  /\ argumentos.marine.alturas[1] = <<>>
  /\ ~argumentos.forecast.falla
  /\ argumentos.forecast.viento_vel = <<>>
  /\ DevueltosSinViento(3)
  /\ Devuelto.puntos[1].altura_m = 0

\* The state has a phase of the four, a spot field and a beach field.
EstadoCompleto(est) ==
  /\ {"fase", "spot_key", "playa_key"} \subseteq DOMAIN est
  /\ est.fase \in Fases

\* The handler of u stores the state of u's first turn: u has no slot yet.
GuardaPrimerTurno(u) ==
  /\ manejador[u].pc = "respondido"
  /\ manejador'[u].pc = "libre"
  /\ u \notin DOMAIN estados_usuarios

\* C33 as stated: after the first turn of a user with no stored state,
\* whatever the text, the state stored for the user has an explicit phase of
\* the four, eligiendo_spot when the text selected nothing, and the spot and
\* beach fields.
C33_PrimerTurnoConFaseExplicita ==
  [][\A u \in Usuarios :
       GuardaPrimerTurno(u) =>
         /\ EstadoCompleto(estados_usuarios'[u])
         /\ estados_usuarios'[u].spot_key = None
              => estados_usuarios'[u].fase = "eligiendo_spot"]_vars

\* What holds of C33: the state stored after the first turn is the dict the
\* engine returns for {}: complete after /start and after a spot of one
\* beach is selected; {} itself when the text selected nothing (the phase is
\* then read as eligiendo_spot by default on the next turn); and the spot
\* with the phase eligiendo_playa, with no beach field, after a spot of
\* several beaches is selected.
C33_PrimerTurnoSegunElTexto ==
  [][\A u \in Usuarios :
       GuardaPrimerTurno(u) =>
         LET e == estados_usuarios'[u]
             t_norm == NormalizarTexto(manejador[u].texto)
         IN  /\ e = manejador[u].nuevo_estado
             /\ \/ e = CrearEstadoInicial /\ t_norm \in ComandosStart
                \/ e = <<>> /\ t_norm \notin ComandosStart
                \/ /\ DOMAIN e = {"spot_key", "fase"}
                   /\ e.fase = "eligiendo_playa"
                   /\ Len(Playas(e.spot_key)) > 1
                \/ /\ EstadoCompleto(e)
                   /\ e.fase = "menu_consulta"
                   /\ Len(Playas(e.spot_key)) = 1
                   /\ e.playa_key = Playas(e.spot_key)[1].key]_vars

\* The first message of user 1 was "v": the slot holds {}, without a phase.
C33_TestigoSinFase ==
  /\ manejador[1].pc = "libre"
  /\ 1 \in DOMAIN estados_usuarios
  /\ estados_usuarios[1] = <<>>
  /\ 2 \notin DOMAIN estados_usuarios

\* The first message of user 1 selected a spot of several beaches: the slot
\* has the spot and the phase, and no beach field.
C33_TestigoSinPlaya ==
  /\ manejador[1].pc = "libre"
  /\ 1 \in DOMAIN estados_usuarios
  /\ DOMAIN estados_usuarios[1] = {"spot_key", "fase"}
  /\ estados_usuarios[1].fase = "eligiendo_playa"
  /\ 2 \notin DOMAIN estados_usuarios
  /\ manejador[2].pc = "libre"

\* The windows of res that the hour dt is in, from inicio to fin.
VentanasDeLaHora(res, dt) ==
  {i \in 1..Len(res) : res[i].inicio <= dt /\ dt <= res[i].fin}

\* C34, of the value returned: every window has an average at or above the
\* threshold, starts no later than it ends, and starts at the hour of a
\* point whose score is at or above the threshold; every point at or above
\* the threshold is in at most one window, and in exactly one when
\* max_ventanas does not cut the list; no point, or none at or above the
\* threshold, gives no window.
VentanasBienFormadas ==
  valor # Pendiente =>
    LET puntos == argumentos.puntos
        umbral == argumentos.umbral_score
        res == Devuelto
        altos == {k \in 1..Len(puntos) : puntos[k].score >= umbral}
    IN  /\ \A i \in 1..Len(res) :
             /\ res[i].promedio >= umbral
             /\ res[i].inicio <= res[i].fin
             /\ \E k \in altos : puntos[k].dt = res[i].inicio
        /\ \A k \in altos :
             /\ Cardinality(VentanasDeLaHora(res, puntos[k].dt)) <= 1
             /\ Cardinality(RachasDe(puntos, umbral)) <= argumentos.max_ventanas
                  => Cardinality(VentanasDeLaHora(res, puntos[k].dt)) = 1
        /\ altos = {} => res = <<>>

\* C34: the windows _agrupar_mejores_ventanas returns are well formed, as
\* above, and the call leaves the observations it was given as they were.
C34_VentanasBienFormadas ==
  /\ []VentanasBienFormadas
  /\ [][valor' # valor => argumentos'.puntos = argumentos.puntos]_vars

\* Seven points of which the fourth and the sixth are below the threshold
\* 75: three windows, each point at or above the threshold in one of them.
C34_Testigo ==
  /\ valor # Pendiente
  /\ Len(argumentos.puntos) = 7
  /\ argumentos.umbral_score = Decimal(75, 1)
  /\ argumentos.max_ventanas = 3
  /\ {k \in 1..7 : argumentos.puntos[k].score < Decimal(75, 1)} = {4, 6}
  /\ Len(Devuelto) = 3
  /\ \A k \in {1, 2, 3, 5, 7} :
       Cardinality(VentanasDeLaHora(Devuelto, argumentos.puntos[k].dt)) = 1

\* Four runs and max_ventanas 3: the points of the run left out are in no
\* window.
C34_TestigoCortada ==
  /\ valor # Pendiente
  /\ argumentos.max_ventanas = 3
  /\ Cardinality(RachasDe(argumentos.puntos, argumentos.umbral_score)) = 4
  /\ Len(Devuelto) = 3
  /\ \E k \in 1..Len(argumentos.puntos) :
       /\ argumentos.puntos[k].score >= argumentos.umbral_score
       /\ VentanasDeLaHora(Devuelto, argumentos.puntos[k].dt) = {}

\* Points all below the threshold: no window.
C34_TestigoSinVentanas ==
  /\ valor # Pendiente
  /\ Len(argumentos.puntos) = 3
  /\ argumentos.max_ventanas = 3
  /\ \A k \in 1..3 : argumentos.puntos[k].score < argumentos.umbral_score
  /\ Devuelto = <<>>

====
